---- MODULE Spec2Model ----
(***************************************************************************)
(* A model of the WhatsApp bridge: the connection manager                  *)
(* (WhatsAppClient), the message scheduler (MessageScheduler and           *)
(* ScheduledMessageStore) and the event-to-storage sync handlers           *)
(* (setupWhatsAppEventHandlers over MessageStore and ChatStore).           *)
(*                                                                         *)
(* Three specifications share the variables:                               *)
(*   SpecConn   the connect / reconnect state machine,                     *)
(*   SpecSched  the scheduled-message store and the polling loop,          *)
(*   SpecSync   the ingestion of protocol events into the row store.       *)
(***************************************************************************)
EXTENDS Integers, Sequences, FiniteSets, TLC

\* ---------------------------------------------------------------- bounds
\* Sockets that can be alive or referenced at the same time.
MaxSockets == 2
\* connect() invocations suspended at an await at the same time.
MaxPending == 1
\* Reconnect timers armed in the event loop at the same time.
MaxTimers == 2

\* Rows the scheduled_messages table can hold.
MaxScheduled == 1
\* 'message.due' handlers awaiting sendMessage for one row at the same time.
MaxInflight == 2
\* The last time of day of the clock (times of day are 0..MaxTod).
MaxTod == 1
\* Rows the messages table can hold.
MaxMessages == 1
\* The longest payload handed to encrypt(), in bytes.
MaxPayload == 2

\* ------------------------------------------------------ program constants
maxReconnectAttempts == 10
MaxRows == 102
MaxListeners == 2
MaxBatch == 2

\* ------------------------------------------------------------- variables
VARIABLES
  \* WhatsAppClient
  socket,             \* this.socket: 0 is null, else a socket slot
  sock,               \* slot -> "free" | "connecting" | "open" | "closed"
  isConnected,        \* connectionState.isConnected
  isConnecting,       \* connectionState.isConnecting
  reconnectAttempts,  \* this.reconnectAttempts
  reconnectTimer,     \* this.reconnectTimer is not null
  timersArmed,        \* setTimeout callbacks armed and not yet fired or cleared
  connectPending,     \* connect() calls suspended between their awaits
  clearCredsSet,      \* this.clearCreds is not null
  sockCreds,          \* slot -> the credentials its socket was created with
  \* Encryption instance and the auth directory on disk
  encryptionKey,      \* the key the Encryption instance derived from its passphrase
  credsEnc,           \* auth/creds.enc: Null, or <<token text>>
  credsJson,          \* auth/creds.json: Null, or <<plaintext bytes>>
  orphaned,           \* creds.json is what is left of a creds.enc that was deleted
                      \* because it could not be decrypted
  token,              \* the token an encrypt() caller holds, with what it was made of
  \* observers of the run
  last,               \* the operation that ran last, with what it returned
  emitted,            \* the signals that operation emitted, in order
  afterDisconnect,    \* disconnect() has returned and connect() was not called since
  lossPending,        \* a recoverable close happened; no disconnect()/logout(),
                      \* no connected state and no connection.failed since
  \* row store
  chats,              \* chats table: jid -> row
  messages,           \* messages table: id -> row
  contacts,           \* contacts table: jid -> row
  scheduled,          \* scheduled_messages table: id -> row
  \* scheduler and its delivery consumer
  now,                \* the wall clock, an instant [day, tod]
  inflight,           \* id -> 'message.due' handlers awaiting sendMessage
  sendCount,          \* id -> times sendMessage was invoked for the row
  \* vector store
  initialized,        \* VectorStore.initialized
  embeddings,         \* message_embeddings_meta: the message ids that have a row
  \* event handling
  handling,           \* the listeners entered and not finished, each with its steps left
  embedPending,       \* message ids whose embeddings.embed() promise is unsettled
  \* full-text index
  rowid,              \* messages.rowid: message id -> rowid
  messages_fts        \* the entries of messages_fts: <<rowid, content indexed>>

connVars == <<socket, sock, isConnected, isConnecting, reconnectAttempts,
              reconnectTimer, timersArmed, connectPending, clearCredsSet,
              sockCreds, afterDisconnect, lossPending>>

authVars == <<encryptionKey, credsEnc, credsJson, orphaned>>

storeVars == <<chats, messages, contacts>>

schedVars == <<scheduled, now, inflight, sendCount>>

vecVars == <<initialized, embeddings>>

ingestVars == <<handling, embedPending>>

ftsVars == <<rowid, messages_fts>>

vars == <<connVars, authVars, token, storeVars, schedVars, vecVars, ingestVars,
          ftsVars, last, emitted>>

Slots == 1..MaxSockets

Live(s) == sock[s] \in {"connecting", "open"}

\* The operations of the client that start with this.ensureConnected().
Operations ==
  {"sendMessage", "sendMedia", "forwardMessage", "reactToMessage",
   "deleteMessage", "editMessage", "starMessage", "markChatRead",
   "archiveChat", "pinChat", "muteChat", "createGroup",
   "addGroupParticipants", "removeGroupParticipants"}

\* The causes a 'close' connection update carries (DisconnectReason of the
\* status code; undefined when the socket was ended without an error).
CloseCauses == {"loggedOut", "connectionLost", "undefined"}

\* Conversation identifiers; the one ending in @g.us is a group's.
Jids == {"c1@s.whatsapp.net", "g1@g.us"}

\* isGroupJid(jid): jid.endsWith('@g.us').
isGroupJid(jid) == jid = "g1@g.us"

\* Protocol-assigned message ids and generated scheduled-message ids.
MsgIds == 1..MaxMessages
SchedIds == 1..MaxScheduled

\* Instants of the clock: a calendar day and a time of day.
Days == {0, 1}
Instants == [day : Days, tod : 0..MaxTod]

\* a is at or before b.
InstantLeq(a, b) == a.day < b.day \/ (a.day = b.day /\ a.tod <= b.tod)

\* An optional value: <<>> is null (or an absent field), <<v>> is v.
Null == <<>>
Some(v) == <<v>>
COALESCE(a, b) == IF a # Null THEN a ELSE b

\* ------------------------------------------------------------------ Init
InitConn ==
  /\ socket = 0
  /\ sock = [s \in Slots |-> "free"]
  /\ isConnected = FALSE
  /\ isConnecting = FALSE
  /\ reconnectAttempts = 0
  /\ reconnectTimer = FALSE
  /\ timersArmed = 0
  /\ connectPending = 0
  /\ clearCredsSet = FALSE
  /\ sockCreds = [s \in Slots |-> "none"]
  /\ afterDisconnect = FALSE
  /\ lossPending = FALSE

\* An initialized Encryption instance and an empty auth directory.
InitAuth ==
  /\ encryptionKey = "k1"
  /\ credsEnc = Null
  /\ credsJson = Null
  /\ orphaned = FALSE
  /\ token = Null

InitStore ==
  /\ chats = <<>>
  /\ messages = <<>>
  /\ contacts = <<>>
  /\ rowid = <<>>
  /\ messages_fts = {}

InitSched ==
  /\ scheduled = <<>>
  /\ now = [day |-> 0, tod |-> 0]
  /\ inflight = <<>>
  /\ sendCount = <<>>

\* new VectorStore(db, dimension): not initialized; no table exists yet.
InitVec ==
  /\ initialized = FALSE
  /\ embeddings = {}

\* No listener running, no embedding requested.
InitIngest ==
  /\ handling = Null
  /\ embedPending = {}

Init ==
  /\ InitConn
  /\ InitAuth
  /\ InitStore
  /\ InitSched
  /\ InitVec
  /\ InitIngest
  /\ last = [op |-> "init"]
  /\ emitted = <<>>

\* ------------------------------------------------------------ Encryption
\* Bytes are bits here; a payload is a byte sequence of any length up to
\* MaxPayload, the empty one included.
Bytes == {0, 1}
Payloads == UNION {[1..n -> Bytes] : n \in 0..MaxPayload}

\* Keys derived from passphrases (PBKDF2 over the stored salt: one key per
\* passphrase) and the values crypto.randomBytes(IV_LENGTH) can return.
Keys == {"k1", "k2"}
Ivs == {"iv1", "iv2"}

\* The counter-mode key stream of AES-256-GCM under a key and an IV.
KeyStream(key, iv, i) ==
  IF (key = "k1") = (iv = "iv1") THEN i % 2 ELSE (i + 1) % 2

\* cipher.update(input) / decipher.update(ciphertext): the key stream added
\* bytewise.
CipherUpdate(key, iv, input) ==
  [i \in 1..Len(input) |-> (input[i] + KeyStream(key, iv, i)) % 2]

\* cipher.getAuthTag(): the GCM tag, a function of key, IV and ciphertext
\* that no other key, IV or ciphertext yields.
AuthTag(key, iv, ciphertext) == <<key, iv, ciphertext>>

\* Buffer.concat([iv, authTag, encrypted]); a buffer cut below
\* IV_LENGTH + AUTH_TAG_LENGTH has short set.
BufferConcat(iv, authTag, ciphertext) ==
  [short |-> FALSE, iv |-> iv, authTag |-> authTag, ciphertext |-> ciphertext]

\* result.toString('base64'): the canonical text of a buffer. A text is the
\* buffer it encodes and the number of whitespace characters in it.
toBase64(buffer) == [data |-> buffer, ws |-> 0]

\* Buffer.from(text, 'base64'): whitespace in the text is skipped.
fromBase64(text) == text.data

\* Encryption.encrypt(data) of an initialized instance, with the IV drawn.
encrypt(key, iv, data) ==
  LET encrypted == CipherUpdate(key, iv, data)
  IN  toBase64(BufferConcat(iv, AuthTag(key, iv, encrypted), encrypted))

\* decrypt() returning what decipher.update() gave without final()'s check of
\* the tag.
decryptUnverified(key, encryptedData) ==
  LET data == fromBase64(encryptedData)
  IN  IF data.short
      THEN [ok |-> FALSE, value |-> <<>>, error |-> "Invalid encrypted data"]
      ELSE [ok |-> TRUE, value |-> CipherUpdate(key, data.iv, data.ciphertext),
            error |-> ""]

\* Encryption.decrypt(encryptedData) of an initialized instance: the plaintext,
\* or the error thrown.
decrypt(key, encryptedData) ==
  LET data == fromBase64(encryptedData)
  IN  IF data.short
      THEN [ok |-> FALSE, value |-> <<>>, error |-> "Invalid encrypted data"]
      ELSE IF data.authTag # AuthTag(key, data.iv, data.ciphertext)
      THEN [ok |-> FALSE, value |-> <<>>,
            error |-> "Unsupported state or unable to authenticate data"]
      ELSE [ok |-> TRUE, value |-> CipherUpdate(key, data.iv, data.ciphertext),
            error |-> ""]

\* The ways a token text is altered on its way back to decrypt(): a byte of
\* the ciphertext flipped, the IV or the tag replaced by that of another token
\* of the same key, the text cut short, whitespace added to the text.
Alterations ==
  {"flipCipherByte", "otherIv", "otherTag", "truncate", "whitespace"}

OtherIv(iv) == IF iv = "iv1" THEN "iv2" ELSE "iv1"

\* A token text with one alteration applied.
Altered(text, how) ==
  LET b == text.data
  IN  CASE how = "flipCipherByte" ->
             [text EXCEPT !.data.ciphertext[1] = 1 - @]
        [] how = "otherIv" ->
             [text EXCEPT !.data.iv = OtherIv(@)]
        [] how = "otherTag" ->
             [text EXCEPT !.data.authTag =
                AuthTag(b.authTag[1], OtherIv(b.iv), b.ciphertext)]
        [] how = "truncate" ->
             [text EXCEPT !.data.short = TRUE]
        [] how = "whitespace" ->
             [text EXCEPT !.ws = 1]

\* A caller encrypts a payload and keeps the token.
EncryptCall(data, iv) ==
  /\ token' = Some([text |-> encrypt(encryptionKey, iv, data),
                    original |-> encrypt(encryptionKey, iv, data),
                    payload |-> data, key |-> encryptionKey])
  /\ last' = [op |-> "encrypt"]
  /\ emitted' = <<>>
  /\ UNCHANGED <<connVars, authVars, storeVars, vecVars, ingestVars, schedVars, ftsVars>>

\* The token is altered in storage or in transit.
AlterToken(how) ==
  /\ token # Null
  /\ token[1].text = token[1].original
  /\ how = "flipCipherByte" => Len(token[1].payload) > 0
  /\ token' = [token EXCEPT ![1].text = Altered(@, how)]
  /\ last' = [op |-> "alter", how |-> how]
  /\ emitted' = <<>>
  /\ UNCHANGED <<connVars, authVars, storeVars, vecVars, ingestVars, schedVars, ftsVars>>

\* Another Encryption instance is initialized, with the passphrase of key.
InitializeEncryption(key) ==
  /\ encryptionKey' = key
  /\ last' = [op |-> "initialize"]
  /\ emitted' = <<>>
  /\ UNCHANGED <<connVars, credsEnc, credsJson, orphaned, token, storeVars, vecVars, ingestVars, schedVars, ftsVars>>

\* The token is handed to decrypt().
DecryptCall ==
  /\ token # Null
  /\ last' = [op |-> "decrypt", result |-> decrypt(encryptionKey, token[1].text)]
  /\ emitted' = <<>>
  /\ UNCHANGED <<connVars, authVars, token, storeVars, vecVars, ingestVars, schedVars, ftsVars>>

NextCrypto ==
  \/ \E data \in Payloads, iv \in Ivs : EncryptCall(data, iv)
  \/ \E how \in Alterations : AlterToken(how)
  \/ \E key \in Keys : InitializeEncryption(key)
  \/ DecryptCall

\* An Encryption instance of either passphrase, nothing encrypted yet.
InitCrypto ==
  /\ InitConn
  /\ encryptionKey \in Keys
  /\ credsEnc = Null
  /\ credsJson = Null
  /\ orphaned = FALSE
  /\ token = Null
  /\ InitStore
  /\ InitSched
  /\ InitVec
  /\ InitIngest
  /\ last = [op |-> "init"]
  /\ emitted = <<>>

\* Encryption.encrypt and Encryption.decrypt over every payload, key and IV.
SpecCrypto == InitCrypto /\ [][NextCrypto]_vars

\* ------------------------------------------------- WhatsAppClient helpers

\* ensureConnected() checking the socket alone.
EnsureConnectedSocketOnly == socket = 0

\* ensureConnected(): TRUE when it throws 'Not connected to WhatsApp'.
EnsureConnectedThrows == socket = 0 \/ ~isConnected

\* scheduleReconnect(reason) with the cap tested by > instead of >=.
ScheduleReconnectOffByOne(attempts, timer, armed) ==
  IF attempts > maxReconnectAttempts
  THEN [attempts |-> attempts, timer |-> timer, armed |-> armed,
        signals |-> <<"connection.failed">>]
  ELSE [attempts |-> attempts + 1, timer |-> TRUE, armed |-> armed + 1,
        signals |-> <<"connection.reconnecting">>]

\* The state scheduleReconnect(reason) leaves, as a record of the fields it
\* writes and the signals it emits.
ScheduleReconnect(attempts, timer, armed) ==
  IF attempts >= maxReconnectAttempts
  THEN [attempts |-> attempts, timer |-> timer, armed |-> armed,
        signals |-> <<"connection.failed">>]
  ELSE [attempts |-> attempts + 1, timer |-> TRUE, armed |-> armed + 1,
        signals |-> <<"connection.reconnecting">>]

\* The close branch with every cause taken as recoverable.
CloseBranchAlwaysReconnect(cause, attempts, timer, armed) ==
  LET r == ScheduleReconnect(attempts, timer, armed)
  IN  [r EXCEPT !.signals = r.signals \o <<"connection.update">>]

\* The 'connection.update' handler's close branch, run on the client fields
\* given: the fields it leaves and the signals it emits.
CloseBranch(cause, attempts, timer, armed) ==
  IF cause # "loggedOut"
  THEN LET r == ScheduleReconnect(attempts, timer, armed)
       IN  [r EXCEPT !.signals = r.signals \o <<"connection.update">>]
  ELSE [attempts |-> 0, timer |-> timer, armed |-> armed,
        signals |-> <<"connection.logout", "connection.update">>]

\* ------------------------------------------------ useEncryptedAuthState

\* The bytes of the credentials' JSON text.
CredsData == <<1, 0>>

\* The startup decrypt of useEncryptedAuthState on the auth directory as it
\* is: an existing creds.enc is decrypted into creds.json, or, when that
\* throws, deleted and the call fails. The files it leaves.
StartupDecrypt ==
  IF credsEnc = Null
  THEN [failed |-> FALSE, enc |-> credsEnc, json |-> credsJson,
        orphaned |-> orphaned]
  ELSE LET r == decrypt(encryptionKey, credsEnc[1])
       IN  IF r.ok
           THEN [failed |-> FALSE, enc |-> credsEnc, json |-> Some(r.value),
                 orphaned |-> FALSE]
           ELSE [failed |-> TRUE, enc |-> Null, json |-> credsJson,
                 orphaned |-> credsJson # Null]

\* The credentials useMultiFileAuthState loads: those of creds.json, or new
\* ones (initAuthCreds) when there is no such file.
LoadedCreds ==
  IF credsJson = Null THEN "fresh"
  ELSE IF orphaned THEN "orphaned"
  ELSE "stored"

\* ------------------------------------------------ WhatsAppClient actions

\* connect() up to its first await: the early return, or isConnecting set.
ConnectStarts == ~(isConnecting \/ isConnected)

\* connect() from its call to its suspension at an await of real I/O: the
\* early return; or the startup decrypt failing, which rejects
\* useEncryptedAuthState before it awaits anything, so that the catch block
\* runs before any other handler; or the wait for the credential load.
ConnectCall ==
  LET d == StartupDecrypt
  IN  /\ (ConnectStarts /\ ~d.failed) => connectPending < MaxPending
      /\ IF ~ConnectStarts
         THEN /\ emitted' = <<>>
              /\ UNCHANGED <<isConnecting, connectPending, credsEnc, credsJson,
                             orphaned>>
         ELSE /\ credsEnc' = d.enc
              /\ credsJson' = d.json
              /\ orphaned' = d.orphaned
              /\ IF d.failed
                 THEN /\ isConnecting' = FALSE
                      /\ emitted' = <<"connection.update", "connection.update">>
                      /\ UNCHANGED connectPending
                 ELSE /\ isConnecting' = TRUE
                      /\ emitted' = <<"connection.update">>
                      /\ connectPending' = connectPending + 1
      /\ UNCHANGED encryptionKey

\* connect() called by the application.
ApiConnect ==
  /\ ConnectCall
  /\ last' = [op |-> "connect", started |-> ConnectStarts,
              decryptFailed |-> ConnectStarts /\ StartupDecrypt.failed]
  /\ afterDisconnect' = FALSE
  /\ UNCHANGED <<socket, sock, isConnected, reconnectAttempts, reconnectTimer,
                 timersArmed, clearCredsSet, sockCreds, lossPending>>
  /\ UNCHANGED <<token, storeVars, vecVars, ingestVars, schedVars, ftsVars>>

\* The reconnect timer's callback: the handle is dropped, connect() is called
\* and its rejection is swallowed.
TimerFire ==
  /\ timersArmed > 0
  /\ ConnectCall
  /\ timersArmed' = timersArmed - 1
  /\ reconnectTimer' = FALSE
  /\ last' = [op |-> "timer", started |-> ConnectStarts,
              decryptFailed |-> ConnectStarts /\ StartupDecrypt.failed]
  /\ UNCHANGED <<socket, sock, isConnected, reconnectAttempts, clearCredsSet,
                 sockCreds, afterDisconnect, lossPending>>
  /\ UNCHANGED <<token, storeVars, vecVars, ingestVars, schedVars, ftsVars>>

\* The slot a new socket takes: one that holds no live socket.
NewSlot == CHOOSE s \in Slots : ~Live(s) /\ \A t \in Slots : ~Live(t) => s <= t

\* A suspended connect() resumes: the credential load and the version fetch
\* succeed and the socket is created, or one of them rejects.
ConnectResume(outcome) ==
  /\ connectPending > 0
  /\ connectPending' = connectPending - 1
  /\ IF outcome = "ok"
     THEN /\ \E s \in Slots : ~Live(s)
          /\ socket' = NewSlot
          /\ sock' = [s \in Slots |-> IF s = NewSlot THEN "connecting"
                                      ELSE IF sock[s] = "closed" THEN "free"
                                      ELSE sock[s]]
          /\ sockCreds' = [sockCreds EXCEPT ![NewSlot] = LoadedCreds]
          /\ clearCredsSet' = TRUE
          /\ emitted' = <<>>
          /\ UNCHANGED isConnecting
     ELSE /\ clearCredsSet' = (clearCredsSet \/ outcome = "versionFetchFails")
          /\ isConnecting' = FALSE
          /\ emitted' = <<"connection.update">>
          /\ UNCHANGED <<socket, sock, sockCreds>>
  /\ last' = [op |-> "connectResume", outcome |-> outcome]
  /\ UNCHANGED <<isConnected, reconnectAttempts, reconnectTimer, timersArmed,
                 authVars, afterDisconnect, lossPending>>
  /\ UNCHANGED <<token, storeVars, vecVars, ingestVars, schedVars, ftsVars>>

\* The 'open' branch without the reset of this.reconnectAttempts.
SocketOpenNoReset(s) ==
  /\ sock[s] = "connecting"
  /\ sock' = [sock EXCEPT ![s] = "open"]
  /\ isConnected' = TRUE
  /\ isConnecting' = FALSE
  /\ emitted' = <<"connection.update">>
  /\ last' = [op |-> "open", slot |-> s, retried |-> reconnectAttempts > 0]
  /\ lossPending' = FALSE
  /\ UNCHANGED <<socket, reconnectAttempts, reconnectTimer, timersArmed,
                 connectPending, clearCredsSet, sockCreds, authVars,
                 afterDisconnect>>
  /\ UNCHANGED <<token, storeVars, vecVars, ingestVars, schedVars, ftsVars>>

\* The socket emits connection 'open'.
SocketOpen(s) ==
  /\ sock[s] = "connecting"
  /\ sock' = [sock EXCEPT ![s] = "open"]
  /\ reconnectAttempts' = 0
  /\ isConnected' = TRUE
  /\ isConnecting' = FALSE
  /\ emitted' = <<"connection.update">>
  /\ last' = [op |-> "open", slot |-> s, retried |-> reconnectAttempts > 0]
  /\ lossPending' = FALSE
  /\ UNCHANGED <<socket, reconnectTimer, timersArmed, connectPending,
                 clearCredsSet, sockCreds, authVars, afterDisconnect>>
  /\ UNCHANGED <<token, storeVars, vecVars, ingestVars, schedVars, ftsVars>>

\* The socket emits connection 'close' with a cause of its own (the remote
\* side logged the device out, or the connection was lost).
SocketClose(s, cause) ==
  LET r == CloseBranch(cause, reconnectAttempts, reconnectTimer, timersArmed)
  IN  /\ Live(s)
      /\ cause \in {"loggedOut", "connectionLost"}
      /\ r.armed <= MaxTimers
      /\ sock' = [sock EXCEPT ![s] = IF s = socket THEN "closed" ELSE "free"]
      /\ sockCreds' = [sockCreds EXCEPT ![s] = "none"]
      /\ isConnected' = FALSE
      /\ isConnecting' = FALSE
      /\ reconnectAttempts' = r.attempts
      /\ reconnectTimer' = r.timer
      /\ timersArmed' = r.armed
      /\ emitted' = r.signals
      /\ last' = [op |-> "close", cause |-> cause, attempts |-> reconnectAttempts]
      /\ lossPending' = (cause # "loggedOut" /\ r.signals[1] # "connection.failed")
      /\ UNCHANGED <<socket, connectPending, clearCredsSet, authVars,
                     afterDisconnect>>
      /\ UNCHANGED <<token, storeVars, vecVars, ingestVars, schedVars, ftsVars>>

\* The socket emits 'creds.update': saveCreds() has the protocol library write
\* creds.json, then writes its encryption to creds.enc and keeps creds.json.
SocketCredsUpdate(s) ==
  /\ Live(s)
  /\ credsJson' = Some(CredsData)
  /\ \E iv \in Ivs : credsEnc' = Some(encrypt(encryptionKey, iv, CredsData))
  /\ orphaned' = (sockCreds[s] = "orphaned")
  /\ emitted' = <<>>
  /\ last' = [op |-> "creds.update", slot |-> s]
  /\ UNCHANGED <<socket, sock, isConnected, isConnecting, reconnectAttempts,
                 reconnectTimer, timersArmed, connectPending, clearCredsSet,
                 sockCreds, encryptionKey, afterDisconnect, lossPending>>
  /\ UNCHANGED <<token, storeVars, vecVars, ingestVars, schedVars, ftsVars>>

\* disconnect(). socket.end(undefined) is the protocol library's: ending a live
\* socket may emit a 'close' connection update (with no error) to the client's
\* handler before end() returns.
Disconnect(endEmitsClose) ==
  LET armed0 == IF reconnectTimer THEN timersArmed - 1 ELSE timersArmed
      closes == socket # 0 /\ Live(socket) /\ endEmitsClose
      r == IF closes
           THEN CloseBranch("undefined", 0, FALSE, armed0)
           ELSE [attempts |-> 0, timer |-> FALSE, armed |-> armed0,
                 signals |-> <<>>]
  IN  /\ endEmitsClose => (socket # 0 /\ Live(socket))
      /\ r.armed <= MaxTimers
      /\ reconnectAttempts' = r.attempts
      /\ reconnectTimer' = r.timer
      /\ timersArmed' = r.armed
      /\ sock' = [s \in Slots |-> IF s = socket THEN "free" ELSE sock[s]]
      /\ sockCreds' = [s \in Slots |-> IF s = socket THEN "none" ELSE sockCreds[s]]
      /\ socket' = 0
      /\ isConnected' = FALSE
      /\ isConnecting' = FALSE
      /\ emitted' = r.signals \o <<"connection.update">>
      /\ last' = [op |-> "disconnect", closeEmitted |-> closes]
      /\ afterDisconnect' = TRUE
      /\ lossPending' = FALSE
      /\ UNCHANGED <<connectPending, clearCredsSet, authVars>>
      /\ UNCHANGED <<token, storeVars, vecVars, ingestVars, schedVars, ftsVars>>

\* logout(). socket.logout() is the protocol library's: it ends a live socket
\* with the loggedOut cause, or rejects.
Logout(outcome) ==
  LET closes == socket # 0 /\ Live(socket)
      r == IF closes
           THEN CloseBranch("loggedOut", reconnectAttempts, reconnectTimer,
                            timersArmed)
           ELSE [attempts |-> reconnectAttempts, timer |-> reconnectTimer,
                 armed |-> timersArmed, signals |-> <<>>]
  IN  /\ outcome = "throws" => socket # 0
      /\ IF outcome = "throws"
         THEN /\ emitted' = <<>>
              /\ UNCHANGED <<socket, sock, isConnected, isConnecting,
                             reconnectAttempts, reconnectTimer, timersArmed,
                             sockCreds, credsEnc, credsJson, orphaned>>
         ELSE /\ reconnectAttempts' = r.attempts
              /\ reconnectTimer' = r.timer
              /\ timersArmed' = r.armed
              /\ sock' = [s \in Slots |-> IF s = socket THEN "free" ELSE sock[s]]
              /\ sockCreds' = [s \in Slots |-> IF s = socket THEN "none"
                                                ELSE sockCreds[s]]
              /\ socket' = 0
              /\ credsEnc' = IF clearCredsSet THEN Null ELSE credsEnc
              /\ credsJson' = IF clearCredsSet THEN Null ELSE credsJson
              /\ orphaned' = (orphaned /\ ~clearCredsSet)
              /\ isConnected' = FALSE
              /\ isConnecting' = FALSE
              /\ emitted' = r.signals \o <<"connection.update">>
      /\ last' = [op |-> "logout", outcome |-> outcome]
      /\ lossPending' = FALSE
      /\ UNCHANGED <<connectPending, clearCredsSet, encryptionKey,
                     afterDisconnect>>
      /\ UNCHANGED <<token, storeVars, vecVars, ingestVars, schedVars, ftsVars>>

\* The process stops and is started again with the passphrase of key: a new
\* Encryption instance and a new WhatsAppClient over the auth directory as the
\* old process left it.
Restart(key) ==
  /\ encryptionKey' = key
  /\ socket' = 0
  /\ sock' = [s \in Slots |-> "free"]
  /\ sockCreds' = [s \in Slots |-> "none"]
  /\ isConnected' = FALSE
  /\ isConnecting' = FALSE
  /\ reconnectAttempts' = 0
  /\ reconnectTimer' = FALSE
  /\ timersArmed' = 0
  /\ connectPending' = 0
  /\ clearCredsSet' = FALSE
  /\ afterDisconnect' = FALSE
  /\ lossPending' = FALSE
  /\ emitted' = <<>>
  /\ last' = [op |-> "restart"]
  /\ UNCHANGED <<credsEnc, credsJson, orphaned>>
  /\ UNCHANGED <<token, storeVars, vecVars, ingestVars, schedVars, ftsVars>>

\* What a send/mutate operation does after ensureConnected() has passed.
OpResults(op) ==
  IF op = "sendMedia" THEN {"handedToSocket", "MediaFileNotFound"}
  ELSE {"handedToSocket"}

\* A send/mutate operation of the client is invoked.
CallOp(op, result) ==
  /\ result \in (IF EnsureConnectedThrows THEN {"NotConnected"}
                 ELSE OpResults(op))
  /\ last' = [op |-> op, result |-> result]
  /\ emitted' = <<>>
  /\ UNCHANGED <<connVars, authVars, token, storeVars, vecVars, ingestVars, schedVars, ftsVars>>

NextConn ==
  \/ ApiConnect
  \/ TimerFire
  \/ \E outcome \in {"ok", "authStateFails", "versionFetchFails"} :
       ConnectResume(outcome)
  \/ \E s \in Slots : SocketOpen(s)
  \/ \E s \in Slots, cause \in CloseCauses : SocketClose(s, cause)
  \/ \E e \in BOOLEAN : Disconnect(e)
  \/ \E outcome \in {"ok", "throws"} : Logout(outcome)

\* The connection state machine alone.
SpecConn == Init /\ [][NextConn]_vars

NextOps ==
  \/ ApiConnect
  \/ TimerFire
  \/ \E outcome \in {"ok", "authStateFails", "versionFetchFails"} :
       ConnectResume(outcome)
  \/ \E s \in Slots : SocketOpen(s)
  \/ \E s \in Slots, cause \in CloseCauses : SocketClose(s, cause)
  \/ \E e \in BOOLEAN : Disconnect(e)
  \/ \E outcome \in {"ok", "throws"} : Logout(outcome)
  \/ \E op \in Operations,
        result \in {"NotConnected", "handedToSocket", "MediaFileNotFound"} :
       CallOp(op, result)

NextAuth ==
  \/ ApiConnect
  \/ TimerFire
  \/ \E outcome \in {"ok", "authStateFails", "versionFetchFails"} :
       ConnectResume(outcome)
  \/ \E s \in Slots : SocketOpen(s)
  \/ \E s \in Slots, cause \in CloseCauses : SocketClose(s, cause)
  \/ \E s \in Slots : SocketCredsUpdate(s)
  \/ \E e \in BOOLEAN : Disconnect(e)
  \/ \E outcome \in {"ok", "throws"} : Logout(outcome)
  \/ \E key \in Keys : Restart(key)

\* The client over its auth directory, across restarts of the process with
\* either passphrase.
SpecAuth == Init /\ [][NextAuth]_vars

\* The send/mutate operations called in every state of the connection state
\* machine (every action that writes a field ensureConnected() reads).
SpecOps == Init /\ [][NextOps]_vars

\* ------------------------------------------------------------- time text
\* Text is a sequence of character codes; a date or a time of day is written
\* as one digit here (the fixed-width digits of YYYY-MM-DD and HH:MM:SS).
Digit(n) == 48 + n
DateText(i) == <<Digit(i.day)>>
TimeText(i) == <<Digit(i.tod)>>

\* Date.prototype.toISOString(): date, 'T', time, '.000Z'.
toISOString(i) == DateText(i) \o <<84>> \o TimeText(i) \o <<46, 48, 48, 48, 90>>

\* SQLite's datetime('now'): date, ' ', time.
SqlDatetime(i) == DateText(i) \o <<32>> \o TimeText(i)

\* SQLite's <= on TEXT (BINARY collation): bytewise, a prefix sorts first.
TextLeq(a, b) ==
  LET n == IF Len(a) < Len(b) THEN Len(a) ELSE Len(b)
      diff == {i \in 1..n : a[i] # b[i]}
  IN  IF diff = {} THEN Len(a) <= Len(b)
      ELSE LET i == CHOOSE j \in diff : \A k \in diff : j <= k
           IN  a[i] < b[i]

\* ----------------------------------------------------------- ChatStore

\* The parameters ChatStore.upsert binds from a Partial<Chat>: flags by
\* truthiness, the unread count by ?? 0, the rest by ?? null.
ChatParams(chat) ==
  [name |-> chat.name,
   isGroup |-> chat.isGroup = Some(TRUE),
   isArchived |-> chat.isArchived = Some(TRUE),
   isPinned |-> chat.isPinned = Some(TRUE),
   isMuted |-> chat.isMuted = Some(TRUE),
   muteUntil |-> chat.muteUntil,
   unreadCount |-> IF chat.unreadCount = Null THEN 0 ELSE chat.unreadCount[1],
   lastMessageTime |-> chat.lastMessageTime]

\* ChatStore.upsert(chat): the chats table it leaves.
ChatUpsert(table, jid, chat) ==
  LET p == ChatParams(chat)
  IN  IF jid \notin DOMAIN table
      THEN [j \in DOMAIN table \cup {jid} |-> IF j = jid THEN p ELSE table[j]]
      ELSE [table EXCEPT ![jid] =
              [name |-> COALESCE(p.name, @.name),
               isGroup |-> @.isGroup,
               isArchived |-> p.isArchived,
               isPinned |-> p.isPinned,
               isMuted |-> p.isMuted,
               muteUntil |-> COALESCE(p.muteUntil, @.muteUntil),
               unreadCount |-> p.unreadCount,
               lastMessageTime |-> COALESCE(p.lastMessageTime, @.lastMessageTime)]]

\* A Partial<Chat> with no field given.
NoChatFields ==
  [name |-> Null, isGroup |-> Null, isArchived |-> Null, isPinned |-> Null,
   isMuted |-> Null, muteUntil |-> Null, unreadCount |-> Null,
   lastMessageTime |-> Null]

\* --------------------------------------------------------- MessageStore

\* The messages table accepts an insert only for an existing chat
\* (FOREIGN KEY chat_jid REFERENCES chats, foreign_keys = ON).
MessageForeignKeyOk(id, chatJid) == id \in DOMAIN messages \/ chatJid \in DOMAIN chats

\* upsert(message) whose conflict branch adds the reactions given to the ones
\* stored instead of replacing them.
MessageUpsertAppending(table, id, m) ==
  IF id \notin DOMAIN table
  THEN [i \in DOMAIN table \cup {id} |->
          IF i = id
          THEN [chatJid |-> m.chatJid, senderJid |-> m.senderJid,
                content |-> m.content, timestamp |-> m.timestamp,
                isStarred |-> m.isStarred = Some(TRUE),
                isDeleted |-> m.isDeleted = Some(TRUE),
                mediaDownloaded |-> m.mediaDownloaded = Some(TRUE),
                mediaLocalPath |-> m.mediaLocalPath,
                reactions |-> m.reactions]
          ELSE table[i]]
  ELSE [table EXCEPT ![id] =
          [@ EXCEPT !.content = COALESCE(m.content, @),
                    !.isStarred = (m.isStarred = Some(TRUE)),
                    !.isDeleted = (m.isDeleted = Some(TRUE)),
                    !.mediaDownloaded = (m.mediaDownloaded = Some(TRUE)),
                    !.mediaLocalPath = COALESCE(m.mediaLocalPath, @),
                    !.reactions = IF m.reactions = Null THEN @
                                  ELSE IF @ = Null THEN m.reactions
                                  ELSE Some(@[1] \o m.reactions[1])]]

\* MessageStore.upsert(message): the messages table it leaves; the flags are
\* bound by truthiness (x ? 1 : 0), the other fields by ?? null.
MessageUpsert(table, id, m) ==
  IF id \notin DOMAIN table
  THEN [i \in DOMAIN table \cup {id} |->
          IF i = id
          THEN [chatJid |-> m.chatJid, senderJid |-> m.senderJid,
                content |-> m.content, timestamp |-> m.timestamp,
                isStarred |-> m.isStarred = Some(TRUE),
                isDeleted |-> m.isDeleted = Some(TRUE),
                mediaDownloaded |-> m.mediaDownloaded = Some(TRUE),
                mediaLocalPath |-> m.mediaLocalPath,
                reactions |-> m.reactions]
          ELSE table[i]]
  ELSE [table EXCEPT ![id] =
          [@ EXCEPT !.content = COALESCE(m.content, @),
                    !.isStarred = (m.isStarred = Some(TRUE)),
                    !.isDeleted = (m.isDeleted = Some(TRUE)),
                    !.mediaDownloaded = (m.mediaDownloaded = Some(TRUE)),
                    !.mediaLocalPath = COALESCE(m.mediaLocalPath, @),
                    !.reactions = COALESCE(m.reactions, @)]]

\* ------------------------------------------------- messages_fts triggers

\* The words the tokenizer of messages_fts yields for a text.
Tokens(text) == IF text = "hi yo" THEN {"hi", "yo"} ELSE {text}

\* Trigger messages_ai: the new row's content is indexed under its rowid.
messages_ai(fts, rid, new) == fts \cup {<<rid, new>>}

\* Trigger messages_ad: the 'delete' command takes out the entry of
\* OLD.rowid that was indexed from OLD.content.
messages_ad(fts, rid, old) == fts \ {<<rid, old>>}

\* An update trigger that indexes the new content and leaves the old entry.
messages_auInsertOnly(fts, rid, old, new) == messages_ai(fts, rid, new)

\* Trigger messages_au: the old entry out, the new content in.
messages_au(fts, rid, old, new) ==
  messages_ai(messages_ad(fts, rid, old), rid, new)

\* The rowid of each row after a statement: a row keeps its rowid, inserted
\* rows get the numbers after the largest one in use.
RowidsAfter(table, rowids, table2) ==
  LET used == {rowids[i] : i \in DOMAIN table}
      top == IF used = {} THEN 0
             ELSE CHOOSE n \in used : \A k \in used : k <= n
      fresh == DOMAIN table2 \ DOMAIN table
  IN  [i \in DOMAIN table2 |->
         IF i \in DOMAIN table THEN rowids[i]
         ELSE top + Cardinality({j \in fresh : j <= i})]

RECURSIVE FireTriggers(_, _, _, _, _, _)
\* The row triggers of messages fired for the rows of ids that a statement
\* deleted, inserted or updated.
FireTriggers(fts, ids, table, rowids, table2, rowids2) ==
  IF ids = {} THEN fts
  ELSE LET i == CHOOSE j \in ids : TRUE
           f == IF i \notin DOMAIN table2
                THEN messages_ad(fts, rowids[i], table[i].content)
                ELSE IF i \notin DOMAIN table
                THEN messages_ai(fts, rowids2[i], table2[i].content)
                ELSE messages_au(fts, rowids[i], table[i].content,
                                 table2[i].content)
       IN  FireTriggers(f, ids \ {i}, table, rowids, table2, rowids2)

\* What a statement on messages does besides: rowids are given and the
\* triggers messages_ai, messages_ad and messages_au run for its rows (the
\* rows a cascade deletes included).
FtsFollows ==
  LET touched == {i \in DOMAIN messages \cup DOMAIN messages' :
                    \/ i \notin DOMAIN messages
                    \/ i \notin DOMAIN messages'
                    \/ messages'[i] # messages[i]}
  IN  /\ rowid' = RowidsAfter(messages, rowid, messages')
      /\ messages_fts' = FireTriggers(messages_fts, touched, messages, rowid,
                                      messages', rowid')

\* MessageStore.getByChatJid(chatJid): the ids of the rows returned.
getByChatJid(chatJid) == {id \in DOMAIN messages : messages[id].chatJid = chatJid}

\* ------------------------------------------------------- sync handlers

\* whatsapp.on('message.new'): the message is upserted, then the chat's
\* last-message time. A failing write aborts the handler.
MessageNew(id, chatJid, content, ts) ==
  LET m == [chatJid |-> chatJid, senderJid |-> Some(chatJid), content |-> content,
            timestamp |-> toISOString(ts), isStarred |-> Null,
            isDeleted |-> Null, mediaDownloaded |-> Null,
            mediaLocalPath |-> Null, reactions |-> Null]
      c == [NoChatFields EXCEPT !.lastMessageTime = Some(toISOString(ts)),
                                 !.isGroup = Some(isGroupJid(chatJid))]
  IN  /\ IF MessageForeignKeyOk(id, chatJid)
         THEN /\ messages' = MessageUpsert(messages, id, m)
              /\ chats' = ChatUpsert(chats, chatJid, c)
              /\ last' = [op |-> "message.new", id |-> id, chatJid |-> chatJid,
                          content |-> content, ts |-> ts, result |-> "ok"]
         ELSE /\ UNCHANGED <<messages, chats>>
              /\ last' = [op |-> "message.new", id |-> id, chatJid |-> chatJid,
                          content |-> content, ts |-> ts,
                          result |-> "ForeignKeyError"]
      /\ FtsFollows
      /\ emitted' = <<>>
      /\ UNCHANGED <<contacts, vecVars, ingestVars, connVars, authVars, token, schedVars>>

\* whatsapp.on('chat.update'): a partial upsert of name and unread count.
ChatUpdate(jid, name, unreadCount) ==
  /\ chats' = ChatUpsert(chats, jid,
                [NoChatFields EXCEPT !.name = name, !.unreadCount = unreadCount])
  /\ last' = [op |-> "chat.update", jid |-> jid,
              unreadGiven |-> unreadCount # Null]
  /\ emitted' = <<>>
  /\ UNCHANGED <<messages, contacts, vecVars, ingestVars, connVars, authVars, token, schedVars, ftsVars>>

\* ChatStore.markAsRead(jid): setUnreadCount(jid, 0), an UPDATE of the row if
\* there is one.
MarkAsRead(jid) ==
  /\ chats' = IF jid \in DOMAIN chats
               THEN [chats EXCEPT ![jid].unreadCount = 0]
               ELSE chats
  /\ last' = [op |-> "markAsRead", jid |-> jid]
  /\ emitted' = <<>>
  /\ UNCHANGED <<messages, contacts, vecVars, ingestVars, connVars, authVars, token, schedVars, ftsVars>>

\* The Partial<Message> payloads handed to MessageStore.upsert, apart from id,
\* chat and timestamp.
MessagePayloads ==
  [content : {Null, Some("hi")},
   isStarred : {Null, Some(TRUE)},
   isDeleted : {Null, Some(TRUE)},
   mediaDownloaded : {Null, Some(TRUE)},
   mediaLocalPath : {Null, Some("/media/f")},
   reactions : {Null, Some(<<[emoji |-> "thumbsUp", senders |-> <<"a@s.whatsapp.net">>]>>)}]

\* The payloads with no field, with every field, and with one field given.
UpsertCalls ==
  {p \in MessagePayloads :
     Cardinality({f \in DOMAIN p : p[f] # Null}) \in {0, 1, Cardinality(DOMAIN p)}}

\* The message a payload makes for a chat, stamped with the current time.
MessageOf(chatJid, payload) ==
  [chatJid |-> chatJid, senderJid |-> Null, content |-> payload.content,
   timestamp |-> toISOString(now), isStarred |-> payload.isStarred,
   isDeleted |-> payload.isDeleted,
   mediaDownloaded |-> payload.mediaDownloaded,
   mediaLocalPath |-> payload.mediaLocalPath,
   reactions |-> payload.reactions]

\* MessageStore.upsert called with a payload; it throws when the insert
\* violates the foreign key.
Upsert(id, chatJid, payload) ==
  LET m == MessageOf(chatJid, payload)
  IN  /\ messages' = IF MessageForeignKeyOk(id, chatJid)
                      THEN MessageUpsert(messages, id, m)
                      ELSE messages
      /\ last' = [op |-> "upsert", id |-> id, chatJid |-> chatJid,
                  conflict |-> id \in DOMAIN messages,
                  result |-> IF MessageForeignKeyOk(id, chatJid) THEN "ok"
                             ELSE "ForeignKeyError"]
      /\ FtsFollows
      /\ emitted' = <<>>
      /\ UNCHANGED <<chats, contacts, vecVars, ingestVars, connVars, authVars, token, schedVars>>

\* MessageStore.setStar(id, starred): an UPDATE of the row, if there is one.
SetStar(id, starred) ==
  /\ messages' = IF id \in DOMAIN messages
                  THEN [messages EXCEPT ![id].isStarred = starred]
                  ELSE messages
  /\ last' = [op |-> "setStar", id |-> id]
  /\ FtsFollows
  /\ emitted' = <<>>
  /\ UNCHANGED <<chats, contacts, vecVars, ingestVars, connVars, authVars, token, schedVars>>

\* MessageStore.markDeleted(id): the flag is set and the content nulled.
MarkDeleted(id) ==
  /\ messages' = IF id \in DOMAIN messages
                  THEN [messages EXCEPT ![id].isDeleted = TRUE,
                                        ![id].content = Null]
                  ELSE messages
  /\ last' = [op |-> "markDeleted", id |-> id]
  /\ FtsFollows
  /\ emitted' = <<>>
  /\ UNCHANGED <<chats, contacts, vecVars, ingestVars, connVars, authVars, token, schedVars>>

NextUpsert ==
  \/ \E jid \in {"c1@s.whatsapp.net"} : ChatUpdate(jid, Null, Null)
  \/ \E id \in MsgIds, jid \in Jids, payload \in UpsertCalls :
       Upsert(id, jid, payload)

\* Sequences of MessageStore.upsert calls. One chat has a row; an insert for
\* the other chat meets the foreign key.
SpecUpsert == Init /\ [][NextUpsert]_vars

NextMsg ==
  \/ \E jid \in Jids : ChatUpdate(jid, Null, Null)
  \/ \E id \in MsgIds, jid \in Jids, content \in {Null, Some("hi")} :
       MessageNew(id, jid, content, now)
  \/ \E id \in MsgIds, starred \in BOOLEAN : SetStar(id, starred)
  \/ \E id \in MsgIds : MarkDeleted(id)

\* The message store under the 'message.new' handler and the local edits
\* setStar and markDeleted.
SpecMsg == Init /\ [][NextMsg]_vars

\* ---------------------------------------------------------- ContactStore

\* The Partial<Contact> inputs of ContactStore.upsert, apart from the jid.
ContactPayloads ==
  [phoneNumber : {Null, Some("491")},
   name : {Null, Some("n")},
   pushName : {Null, Some("p")},
   profilePictureUrl : {Null, Some("https://pic")},
   isBusiness : {Null, Some(TRUE)}]

\* ContactStore.upsert(contact): the contacts table it leaves; the business
\* flag is bound by truthiness (x ? 1 : 0), the other fields by ?? null.
ContactUpsert(table, jid, c) ==
  IF jid \notin DOMAIN table
  THEN [j \in DOMAIN table \cup {jid} |->
          IF j = jid
          THEN [phoneNumber |-> c.phoneNumber, name |-> c.name,
                pushName |-> c.pushName,
                profilePictureUrl |-> c.profilePictureUrl,
                isBusiness |-> c.isBusiness = Some(TRUE)]
          ELSE table[j]]
  ELSE [table EXCEPT ![jid] =
          [phoneNumber |-> COALESCE(c.phoneNumber, @.phoneNumber),
           name |-> COALESCE(c.name, @.name),
           pushName |-> COALESCE(c.pushName, @.pushName),
           profilePictureUrl |-> COALESCE(c.profilePictureUrl, @.profilePictureUrl),
           isBusiness |-> c.isBusiness = Some(TRUE)]]

\* The fields an input provides.
Given(c) == {f \in DOMAIN c : c[f] # Null}

\* ContactStore.upsert called with an input.
ContactUpsertCall(jid, c) ==
  /\ contacts' = ContactUpsert(contacts, jid, c)
  /\ last' = [op |-> "contact.upsert", jid |-> jid, given |-> Given(c),
              existed |-> jid \in DOMAIN contacts]
  /\ emitted' = <<>>
  /\ UNCHANGED <<chats, messages, vecVars, ingestVars, connVars, authVars, token, schedVars, ftsVars>>

\* whatsapp.on('contacts.update') for one contact of the event: an upsert of
\* its name and its push name (notify).
ContactsUpdate(jid, name, notify) ==
  LET c == [phoneNumber |-> Null, name |-> name, pushName |-> notify,
            profilePictureUrl |-> Null, isBusiness |-> Null]
  IN  /\ contacts' = ContactUpsert(contacts, jid, c)
      /\ last' = [op |-> "contacts.update", jid |-> jid, given |-> Given(c),
                  existed |-> jid \in DOMAIN contacts]
      /\ emitted' = <<>>
      /\ UNCHANGED <<chats, messages, vecVars, ingestVars, connVars, authVars, token, schedVars, ftsVars>>

NextContacts ==
  \/ \E jid \in Jids, c \in ContactPayloads : ContactUpsertCall(jid, c)
  \/ \E jid \in Jids, name \in {Null, Some("n2")}, notify \in {Null, Some("p2")} :
       ContactsUpdate(jid, name, notify)

\* The contact store under upsert and the 'contacts.update' handler.
SpecContacts == Init /\ [][NextContacts]_vars

\* ------------------------------------------------------------ reactions

\* Reaction texts: two emoji, and a text that names a property every object
\* inherits from Object.prototype.
Emojis == {"thumbsUp", "heart"}
ObjectPrototypeKeys == {"constructor"}
ReactionTexts == Emojis \cup ObjectPrototypeKeys
Reactors == {"a@s.whatsapp.net", "b@s.whatsapp.net"}

\* The object without own properties: {}.
EmptyObject == [keys |-> <<>>, val |-> <<>>]

RECURSIVE ParseFrom(_, _, _)
\* JSON.parse from position i: a repeated key keeps its first place, and takes
\* the last value.
ParseFrom(text, i, obj) ==
  IF i > Len(text) THEN obj
  ELSE LET k == text[i].emoji
           keys2 == IF k \in DOMAIN obj.val THEN obj.keys ELSE Append(obj.keys, k)
           val2 == [e \in DOMAIN obj.val \cup {k} |->
                      IF e = k THEN text[i].senders ELSE obj.val[e]]
       IN  ParseFrom(text, i + 1, [keys |-> keys2, val |-> val2])

\* JSON.parse(message.reactions): the object of a stored reactions text.
JSONparse(text) == ParseFrom(text, 1, EmptyObject)

\* JSON.stringify(reactions): the own properties in insertion order.
JSONstringify(obj) ==
  [i \in 1..Len(obj.keys) |->
     [emoji |-> obj.keys[i], senders |-> obj.val[obj.keys[i]]]]

\* reactions[key]: an own property, else a property inherited from
\* Object.prototype (a function, not an array), else undefined.
GetProperty(obj, key) ==
  IF key \in DOMAIN obj.val THEN [kind |-> "own", value |-> obj.val[key]]
  ELSE IF key \in ObjectPrototypeKeys THEN [kind |-> "inherited", value |-> <<>>]
  ELSE [kind |-> "undefined", value |-> <<>>]

\* reactions[key] = value.
SetProperty(obj, key, value) ==
  [keys |-> IF key \in DOMAIN obj.val THEN obj.keys ELSE Append(obj.keys, key),
   val |-> [e \in DOMAIN obj.val \cup {key} |->
              IF e = key THEN value ELSE obj.val[e]]]

\* array.includes(x).
includes(array, x) == \E i \in 1..Len(array) : array[i] = x

\* The merge without the includes test: the reactor is pushed every time.
MergeReactionAlwaysPush(reactions, emoji, senderJid) ==
  LET r1 == IF GetProperty(reactions, emoji).kind = "undefined"
            THEN SetProperty(reactions, emoji, <<>>) ELSE reactions
  IN  SetProperty(r1, emoji, Append(r1.val[emoji], senderJid))

\* The reactions object the handler passes to updateReactions.
MergeReaction(reactions, emoji, senderJid) ==
  LET r1 == IF GetProperty(reactions, emoji).kind = "undefined"
            THEN SetProperty(reactions, emoji, <<>>) ELSE reactions
      list == r1.val[emoji]
  IN  IF includes(list, senderJid) THEN r1
      ELSE SetProperty(r1, emoji, Append(list, senderJid))

\* MessageStore.updateReactions(id, reactions).
updateReactions(table, id, reactions) ==
  [table EXCEPT ![id].reactions = Some(JSONstringify(reactions))]

\* The listener without its if (message): message.reactions of null throws.
ReactionUnguarded(id, emoji, senderJid) ==
  LET found == id \in DOMAIN messages
      reactions == IF found /\ messages[id].reactions # Null
                   THEN JSONparse(messages[id].reactions[1]) ELSE EmptyObject
      throws == ~found \/ GetProperty(reactions, emoji).kind = "inherited"
  IN  /\ messages' = IF ~throws
                      THEN updateReactions(messages, id,
                             MergeReaction(reactions, emoji, senderJid))
                      ELSE messages
      /\ last' = [op |-> "message.reaction", id |-> id, emoji |-> emoji,
                  senderJid |-> senderJid, found |-> found,
                  already |-> /\ emoji \in DOMAIN reactions.val
                              /\ includes(reactions.val[emoji], senderJid),
                  result |-> IF throws THEN "TypeError" ELSE "ok"]
      /\ FtsFollows
      /\ emitted' = <<>>
      /\ UNCHANGED <<chats, contacts, vecVars, ingestVars, connVars, authVars, token, schedVars>>

\* The message ids reaction events name: the stored ones and one that no
\* 'message.new' event has carried.
ReactionTargets == MsgIds \cup {MaxMessages + 1}

\* whatsapp.on('message.reaction'): a reaction to an unknown message is
\* dropped; .includes of an inherited property, which is no array, throws.
Reaction(id, emoji, senderJid) ==
  LET found == id \in DOMAIN messages
      reactions == IF found /\ messages[id].reactions # Null
                   THEN JSONparse(messages[id].reactions[1]) ELSE EmptyObject
      throws == found /\ GetProperty(reactions, emoji).kind = "inherited"
  IN  /\ messages' = IF found /\ ~throws
                      THEN updateReactions(messages, id,
                             MergeReaction(reactions, emoji, senderJid))
                      ELSE messages
      /\ last' = [op |-> "message.reaction", id |-> id, emoji |-> emoji,
                  senderJid |-> senderJid, found |-> found,
                  already |-> /\ emoji \in DOMAIN reactions.val
                              /\ includes(reactions.val[emoji], senderJid),
                  result |-> IF throws THEN "TypeError" ELSE "ok"]
      /\ FtsFollows
      /\ emitted' = <<>>
      /\ UNCHANGED <<chats, contacts, vecVars, ingestVars, connVars, authVars, token, schedVars>>

\* The reactors stored for an emoji of a message.
ReactorsOf(table, id, emoji) ==
  IF table[id].reactions = Null THEN <<>>
  ELSE LET obj == JSONparse(table[id].reactions[1])
       IN  IF emoji \in DOMAIN obj.val THEN obj.val[emoji] ELSE <<>>

NextReact ==
  \/ \E jid \in {"c1@s.whatsapp.net"} : ChatUpdate(jid, Null, Null)
  \/ \E id \in MsgIds : MessageNew(id, "c1@s.whatsapp.net", Some("hi"), now)
  \/ \E id \in ReactionTargets, emoji \in ReactionTexts, senderJid \in Reactors :
       Reaction(id, emoji, senderJid)

\* The message store under 'message.new' and 'message.reaction'.
SpecReact == Init /\ [][NextReact]_vars

\* ------------------------------------------------------ messages.upsert

\* The upsert types of the session's messages.upsert event: live messages
\* ('notify') and replayed ones ('append').
UpsertTypes == {"notify", "append"}

\* The messages an event carries: key.id, key.remoteJid and the message body,
\* which a stub lacks.
WAMessages ==
  [id : MsgIds, remoteJid : Jids, message : {Null, Some("hi"), Some("yo")}]

\* parseMessage(msg): null without a message body, else the incoming message.
parseMessage(msg) ==
  IF msg.message = Null THEN Null
  ELSE Some([id |-> msg.id, chatJid |-> msg.remoteJid, content |-> msg.message])

\* socket.ev.on('messages.upsert') for one message of the event: only a
\* message of type 'notify' that parses is emitted as 'message.new', and the
\* listener of 'message.new' then stores it.
MessagesUpsert(type, msg) ==
  LET parsed == parseMessage(msg)
      emits == type = "notify" /\ parsed # Null
      m == [chatJid |-> msg.remoteJid, senderJid |-> Some(msg.remoteJid),
            content |-> msg.message, timestamp |-> toISOString(now),
            isStarred |-> Null, isDeleted |-> Null, mediaDownloaded |-> Null,
            mediaLocalPath |-> Null, reactions |-> Null]
      c == [NoChatFields EXCEPT !.lastMessageTime = Some(toISOString(now)),
                                 !.isGroup = Some(isGroupJid(msg.remoteJid))]
      stores == emits /\ MessageForeignKeyOk(msg.id, msg.remoteJid)
  IN  /\ messages' = IF stores THEN MessageUpsert(messages, msg.id, m) ELSE messages
      /\ chats' = IF stores THEN ChatUpsert(chats, msg.remoteJid, c) ELSE chats
      /\ FtsFollows
      /\ emitted' = IF emits THEN <<"message.new">> ELSE <<>>
      /\ last' = [op |-> "messages.upsert", type |-> type, id |-> msg.id,
                  chatJid |-> msg.remoteJid, parsed |-> parsed # Null,
                  chatKnown |-> msg.remoteJid \in DOMAIN chats]
      /\ UNCHANGED <<contacts, vecVars, ingestVars, connVars, authVars, token, schedVars>>

NextIngest ==
  \/ \E jid \in Jids : ChatUpdate(jid, Null, Null)
  \/ \E type \in UpsertTypes, msg \in WAMessages : MessagesUpsert(type, msg)

\* The stores under the session's messages.upsert event.
SpecIngest == Init /\ [][NextIngest]_vars

NextSync ==
  \/ \E id \in MsgIds, jid \in Jids, content \in {Null, Some("hi")},
        ts \in Instants : MessageNew(id, jid, content, ts)
  \/ \E jid \in Jids, name \in {Null, Some("n")}, unread \in {Null, Some(2)} :
       ChatUpdate(jid, name, unread)
  \/ \E jid \in Jids : MarkAsRead(jid)

\* The ingestion of protocol events into the row store.
SpecSync == Init /\ [][NextSync]_vars

\* ------------------------------------------------ ScheduledMessageStore

\* The scheduled_messages table accepts an insert only for an existing chat.
ScheduledForeignKeyOk(chatJid) == chatJid \in DOMAIN chats

\* crypto.randomUUID(): an id no row has.
FreshSchedId == CHOOSE id \in SchedIds :
                  id \notin DOMAIN scheduled /\
                  \A j \in SchedIds : j \notin DOMAIN scheduled => id <= j

\* ScheduledMessageStore.getDue(): pending rows whose scheduled_time text is
\* <= the text of datetime('now').
getDue ==
  {id \in DOMAIN scheduled :
     /\ scheduled[id].status = "pending"
     /\ TextLeq(scheduled[id].scheduledTime, SqlDatetime(now))}

\* ScheduledMessageStore.updateStatus(id, status): the table it leaves.
updateStatus(id, status) ==
  IF id \in DOMAIN scheduled
  THEN [scheduled EXCEPT ![id].status = status]
  ELSE scheduled

\* cancel(id) with the status test left out of the WHERE clause.
CancelChangesAnyStatus(id) == id \in DOMAIN scheduled

\* ScheduledMessageStore.cancel(id): whether the UPDATE ... WHERE id = ? AND
\* status = 'pending' changed a row.
CancelChanges(id) == id \in DOMAIN scheduled /\ scheduled[id].status = "pending"

\* ----------------------------------------------------- MessageScheduler

\* schedule(chatJid, content, scheduledTime): store.create() with the time as
\* toISOString(); the row keeps the instant it was made from as 'at'.
Schedule(chatJid, t) ==
  /\ Cardinality(DOMAIN scheduled) < MaxScheduled
  /\ IF ScheduledForeignKeyOk(chatJid)
     THEN LET id == FreshSchedId
          IN  /\ scheduled' = [i \in DOMAIN scheduled \cup {id} |->
                                 IF i = id
                                 THEN [chatJid |-> chatJid,
                                       scheduledTime |-> toISOString(t),
                                       at |-> t, status |-> "pending"]
                                 ELSE scheduled[i]]
              /\ inflight' = [i \in DOMAIN scheduled \cup {id} |->
                                IF i = id THEN 0 ELSE inflight[i]]
              /\ sendCount' = [i \in DOMAIN scheduled \cup {id} |->
                                 IF i = id THEN "never" ELSE sendCount[i]]
              /\ last' = [op |-> "schedule", id |-> id, result |-> "ok"]
     ELSE /\ UNCHANGED <<scheduled, inflight, sendCount>>
          /\ last' = [op |-> "schedule", id |-> 0, result |-> "ForeignKeyError"]
  /\ emitted' = <<>>
  /\ UNCHANGED <<now, connVars, authVars, token, storeVars, vecVars, ingestVars, ftsVars>>

\* Time passes.
Tick ==
  /\ \/ /\ now.tod < MaxTod
        /\ now' = [now EXCEPT !.tod = @ + 1]
     \/ /\ now.tod = MaxTod
        /\ now.day + 1 \in Days
        /\ now' = [day |-> now.day + 1, tod |-> 0]
  /\ last' = [op |-> "tick"]
  /\ emitted' = <<>>
  /\ UNCHANGED <<scheduled, inflight, sendCount, connVars, authVars, token, storeVars, vecVars, ingestVars, ftsVars>>

\* sendMessage invoked once more for a row.
Again(n) == IF n = "never" THEN "once" ELSE "again"

\* checkDueMessages(): 'message.due' is emitted for every row of getDue(), and
\* the delivery consumer runs for each up to its await: when
\* whatsapp.isConnected() (connected, the same for every row of one poll) it
\* invokes sendMessage and waits; otherwise it returns.
Poll(connected) ==
  LET due == getDue
  IN  /\ connected => \A id \in due : inflight[id] < MaxInflight
      /\ inflight' = [id \in DOMAIN inflight |->
                        IF id \in due /\ connected THEN inflight[id] + 1
                        ELSE inflight[id]]
      /\ sendCount' = [id \in DOMAIN sendCount |->
                         IF id \in due /\ connected THEN Again(sendCount[id])
                         ELSE sendCount[id]]
      /\ last' = [op |-> "poll", due |-> due, connected |-> connected]
      /\ emitted' = [i \in 1..Cardinality(due) |-> "message.due"]
      /\ UNCHANGED <<scheduled, now, connVars, authVars, token, storeVars, vecVars, ingestVars, ftsVars>>

\* An awaited sendMessage settles: markSent() when it resolved, markFailed()
\* when it threw.
SendComplete(id, resolved) ==
  /\ id \in DOMAIN inflight
  /\ inflight[id] > 0
  /\ inflight' = [inflight EXCEPT ![id] = @ - 1]
  /\ scheduled' = updateStatus(id, IF resolved THEN "sent" ELSE "failed")
  /\ last' = [op |-> "sendComplete", id |-> id, resolved |-> resolved]
  /\ emitted' = <<>>
  /\ UNCHANGED <<now, sendCount, connVars, authVars, token, storeVars, vecVars, ingestVars, ftsVars>>

\* cancel(id), for a row's id or an unknown one.
Cancel(id) ==
  /\ scheduled' = IF CancelChanges(id)
                  THEN [scheduled EXCEPT ![id].status = "cancelled"]
                  ELSE scheduled
  /\ last' = [op |-> "cancel", id |-> id, result |-> CancelChanges(id),
              before |-> IF id \in DOMAIN scheduled THEN scheduled[id].status
                         ELSE "unknown"]
  /\ emitted' = <<>>
  /\ UNCHANGED <<now, inflight, sendCount, connVars, authVars, token, storeVars, vecVars, ingestVars, ftsVars>>

NextSched ==
  \/ \E jid \in Jids : ChatUpdate(jid, Null, Null)
  \/ \E jid \in Jids, t \in Instants : Schedule(jid, t)
  \/ Tick
  \/ \E connected \in BOOLEAN : Poll(connected)
  \/ \E id \in SchedIds, resolved \in BOOLEAN : SendComplete(id, resolved)
  \/ \E id \in SchedIds : Cancel(id)

\* The scheduled-message store, the polling loop and the delivery consumer.
SpecSched == Init /\ [][NextSched]_vars

\* The scheduler started: the interval timer keeps calling checkDueMessages,
\* the clock advances, and every awaited sendMessage settles.
SpecSchedLive ==
  /\ SpecSched
  /\ WF_vars(\E connected \in BOOLEAN : Poll(connected))
  /\ WF_vars(Tick)
  /\ WF_vars(\E id \in SchedIds, resolved \in BOOLEAN : SendComplete(id, resolved))

\* -------------------------------------------------------- ChatStore.delete

\* The rows of a table that do not reference the chat.
NotOfChat(table, jid) ==
  [i \in {j \in DOMAIN table : table[j].chatJid # jid} |-> table[i]]

\* DELETE FROM chats with foreign keys not enforced: only the chat row goes.
ChatDeleteNoCascade(jid) ==
  /\ chats' = [j \in DOMAIN chats \ {jid} |-> chats[j]]
  /\ UNCHANGED <<messages, scheduled, inflight, sendCount, ftsVars>>

\* DELETE FROM chats WHERE jid = ? under foreign_keys = ON: the rows of
\* messages and scheduled_messages that reference the chat go with it
\* (ON DELETE CASCADE).
ChatDeleteRows(jid) ==
  /\ chats' = [j \in DOMAIN chats \ {jid} |-> chats[j]]
  /\ messages' = IF jid \in DOMAIN chats THEN NotOfChat(messages, jid) ELSE messages
  /\ scheduled' = IF jid \in DOMAIN chats THEN NotOfChat(scheduled, jid) ELSE scheduled
  /\ inflight' = [i \in DOMAIN scheduled' |-> inflight[i]]
  /\ sendCount' = [i \in DOMAIN scheduled' |-> sendCount[i]]
  /\ FtsFollows

\* ChatStore.delete(jid).
ChatDelete(jid) ==
  /\ ChatDeleteRows(jid)
  /\ last' = [op |-> "chat.delete", jid |-> jid,
              hadMessages |-> \E i \in DOMAIN messages : messages[i].chatJid = jid,
              hadScheduled |-> \E i \in DOMAIN scheduled : scheduled[i].chatJid = jid]
  /\ emitted' = <<>>
  /\ UNCHANGED <<now, contacts, vecVars, ingestVars, connVars, authVars, token>>

NextCascade ==
  \/ \E jid \in Jids : ChatUpdate(jid, Null, Null)
  \/ \E id \in MsgIds, jid \in Jids : MessageNew(id, jid, Some("hi"), now)
  \/ \E jid \in Jids, t \in Instants : Schedule(jid, t)
  \/ \E jid \in Jids : ChatDelete(jid)

\* The chats, messages and scheduled_messages tables under inserts and
\* ChatStore.delete.
SpecCascade == Init /\ [][NextCascade]_vars

\* ------------------------------------------------------------ VectorStore

NotInitialized == "Error: Vector store not initialized"

\* What the methods leave unchanged.
VecFrame ==
  UNCHANGED <<storeVars, connVars, authVars, token, schedVars, ingestVars, ftsVars>>

\* initialize(): returns at once when initialized; loading the sqlite-vec
\* extension may throw, and the flag is set only after the tables exist.
VecInitialize(loads) ==
  /\ initialized' = (initialized \/ loads)
  /\ UNCHANGED embeddings
  /\ last' = [op |-> "vec.initialize", was |-> initialized,
              result |-> IF initialized \/ loads THEN "ok" ELSE "Error: load"]
  /\ emitted' = <<>>
  /\ VecFrame

\* upsert(messageId, embedding, model).
VecUpsert(messageId) ==
  /\ embeddings' = IF initialized THEN embeddings \cup {messageId} ELSE embeddings
  /\ UNCHANGED initialized
  /\ last' = [op |-> "vec.upsert", was |-> initialized,
              result |-> IF initialized THEN "ok" ELSE NotInitialized]
  /\ emitted' = <<>>
  /\ VecFrame

\* upsertBatch(items, model).
VecUpsertBatch(messageIds) ==
  /\ embeddings' = IF initialized THEN embeddings \cup messageIds ELSE embeddings
  /\ UNCHANGED initialized
  /\ last' = [op |-> "vec.upsertBatch", was |-> initialized,
              result |-> IF initialized THEN "ok" ELSE NotInitialized]
  /\ emitted' = <<>>
  /\ VecFrame

\* search(queryEmbedding, limit): the message ids of the rows returned.
VecSearch ==
  /\ UNCHANGED <<initialized, embeddings>>
  /\ last' = [op |-> "vec.search", was |-> initialized,
              result |-> IF initialized THEN "ok" ELSE NotInitialized,
              value |-> IF initialized THEN embeddings ELSE {}]
  /\ emitted' = <<>>
  /\ VecFrame

\* getUnembeddedMessageIds(limit): the messages with content, not deleted,
\* that have no embedding.
VecGetUnembeddedMessageIds ==
  /\ UNCHANGED <<initialized, embeddings>>
  /\ last' = [op |-> "vec.getUnembeddedMessageIds", was |-> initialized,
              result |-> "ok",
              value |-> IF initialized
                        THEN {id \in DOMAIN messages \ embeddings :
                                /\ messages[id].content # Null
                                /\ ~messages[id].isDeleted}
                        ELSE {}]
  /\ emitted' = <<>>
  /\ VecFrame

\* delete(messageId).
VecDelete(messageId) ==
  /\ embeddings' = IF initialized THEN embeddings \ {messageId} ELSE embeddings
  /\ UNCHANGED initialized
  /\ last' = [op |-> "vec.delete", was |-> initialized, result |-> "ok"]
  /\ emitted' = <<>>
  /\ VecFrame

VecMethods ==
  {"vec.upsert", "vec.upsertBatch", "vec.search",
   "vec.getUnembeddedMessageIds", "vec.delete"}

NextVec ==
  \/ \E jid \in Jids : ChatUpdate(jid, Null, Null)
  \/ \E id \in MsgIds, jid \in Jids, content \in {Null, Some("hi")} :
       MessageNew(id, jid, content, now)
  \/ \E loads \in BOOLEAN : VecInitialize(loads)
  \/ \E id \in MsgIds : VecUpsert(id)
  \/ \E ids \in SUBSET MsgIds : VecUpsertBatch(ids)
  \/ VecSearch
  \/ VecGetUnembeddedMessageIds
  \/ \E id \in MsgIds : VecDelete(id)

\* The vector store next to the message store.
SpecVec == Init /\ [][NextVec]_vars

\* ------------------------------------------------------ confirmation gate

\* defaultSecurityConfig.requireConfirmation.
requireConfirmation == TRUE

CONFIRMATION_REQUIRED_OPERATIONS ==
  {"send_message", "send_media", "reply_to_message", "forward_message",
   "react_to_message", "delete_message", "edit_message", "star_message",
   "create_group", "add_participants", "remove_participants"}

\* The confirm argument of tool calls that lack confirm: true.
Unconfirmed == {"undefined", "false"}

\* checkConfirmation(operation, confirmFlag, requireConfirmation).allowed.
checkConfirmation(operation, confirmFlag, required) ==
  IF ~required THEN TRUE
  ELSE IF operation \notin CONFIRMATION_REQUIRED_OPERATIONS THEN TRUE
  ELSE confirmFlag = "true"

\* The tool-call handler for a tool that sends or mutates at once: the gate,
\* then the tool's handler.
ToolCall(name, confirmFlag) ==
  /\ last' = [op |-> "tool", name |-> name, confirm |-> confirmFlag,
              result |-> IF checkConfirmation(name, confirmFlag, requireConfirmation)
                         THEN "handled" ELSE "requires explicit confirmation"]
  /\ emitted' = <<>>
  /\ UNCHANGED <<connVars, authVars, token, storeVars, vecVars, ingestVars, schedVars, ftsVars>>

\* The tool-call handler for schedule_message: the gate, then the handler,
\* which refuses a time that is not in the future and else calls
\* scheduler.schedule().
ToolScheduleMessage(confirmFlag, jid, t) ==
  IF ~checkConfirmation("schedule_message", confirmFlag, requireConfirmation)
  THEN /\ last' = [op |-> "tool", name |-> "schedule_message",
                   confirm |-> confirmFlag,
                   result |-> "requires explicit confirmation"]
       /\ emitted' = <<>>
       /\ UNCHANGED <<connVars, authVars, token, storeVars, vecVars, ingestVars, schedVars, ftsVars>>
  ELSE IF InstantLeq(t, now)
  THEN /\ last' = [op |-> "tool", name |-> "schedule_message",
                   confirm |-> confirmFlag,
                   result |-> "scheduled_time must be in the future"]
       /\ emitted' = <<>>
       /\ UNCHANGED <<connVars, authVars, token, storeVars, vecVars, ingestVars, schedVars, ftsVars>>
  ELSE Schedule(jid, t)

\* The server under tool calls that lack confirm: true, with the scheduler
\* and its delivery consumer.
NextConfirm ==
  \/ \E jid \in Jids : ChatUpdate(jid, Null, Null)
  \/ \E name \in CONFIRMATION_REQUIRED_OPERATIONS, c \in Unconfirmed :
       ToolCall(name, c)
  \/ \E c \in Unconfirmed, jid \in Jids, t \in Instants :
       ToolScheduleMessage(c, jid, t)
  \/ Tick
  \/ \E connected \in BOOLEAN : Poll(connected)
  \/ \E id \in SchedIds, resolved \in BOOLEAN : SendComplete(id, resolved)

SpecConfirm == Init /\ [][NextConfirm]_vars

\* ---------------------------------------------------------- output limits

\* defaultSecurityConfig.maxMessagesPerQuery and .maxChatsPerQuery, and the
\* limit a query tool takes when none is requested.
maxMessagesPerQuery == 50
maxChatsPerQuery == 100
DefaultLimit == 20

\* The limit argument of a query tool: absent, or an integer.
LimitArgs ==
  {Null} \cup
  {Some(n) : n \in {-MaxRows, -1, 0, 1, DefaultLimit, maxMessagesPerQuery,
                    maxMessagesPerQuery + 1, maxChatsPerQuery,
                    maxChatsPerQuery + 1, MaxRows}}

\* The numbers of rows a query matches.
RowCounts ==
  {0, 1, DefaultLimit, maxMessagesPerQuery, maxMessagesPerQuery + 1,
   maxChatsPerQuery, maxChatsPerQuery + 1, MaxRows}

\* (args.limit as number) || 20: an absent limit and 0 are falsy.
RequestedLimit(arg) ==
  IF arg = Null THEN DefaultLimit
  ELSE IF arg[1] = 0 THEN DefaultLimit ELSE arg[1]

\* validateQueryLimits(requestedLimit, maxAllowed, resourceType).limit.
validateQueryLimits(requestedLimit, maxAllowed) ==
  IF requestedLimit > maxAllowed THEN maxAllowed ELSE requestedLimit

\* SELECT ... LIMIT ? over a query that matches rows rows: the number of
\* rows returned; a negative LIMIT is no limit in SQLite.
SqlLimit(limit, rows) ==
  IF limit < 0 THEN rows ELSE IF limit < rows THEN limit ELSE rows

\* A query tool (get_messages, search_messages, list_chats) called with a
\* limit argument, over a table in which rows rows match.
QueryTool(name, maxAllowed, arg, rows) ==
  LET limit == validateQueryLimits(RequestedLimit(arg), maxAllowed)
  IN  /\ last' = [op |-> name, arg |-> arg, rows |-> rows, max |-> maxAllowed,
                  limit |-> limit, count |-> SqlLimit(limit, rows)]
      /\ emitted' = <<>>
      /\ UNCHANGED <<connVars, authVars, token, storeVars, vecVars, ingestVars, schedVars, ftsVars>>

QueryTools == {"get_messages", "search_messages", "list_chats"}

NextQuery ==
  \/ \E arg \in LimitArgs, rows \in RowCounts :
       QueryTool("get_messages", maxMessagesPerQuery, arg, rows)
  \/ \E arg \in LimitArgs, rows \in RowCounts :
       QueryTool("search_messages", maxMessagesPerQuery, arg, rows)
  \/ \E arg \in LimitArgs, rows \in RowCounts :
       QueryTool("list_chats", maxChatsPerQuery, arg, rows)

\* The query tools over every limit argument and every table size.
SpecQuery == Init /\ [][NextQuery]_vars

\* ------------------------------------------------------- reconnect delay

\* this.baseReconnectDelay and this.maxReconnectDelay, in milliseconds.
baseReconnectDelay == 1000
maxReconnectDelay == 60000

\* Values of Math.random() * 1000, from 0 up to the largest below 1000.
Jitters == {111 * j : j \in 0..9}

\* Math.min(a, b).
Min(a, b) == IF a <= b THEN a ELSE b

\* The delay without the cap of maxReconnectDelay.
ReconnectDelayUncapped(attempts, jitter) ==
  baseReconnectDelay * 2^attempts + jitter

\* The delay scheduleReconnect computes for this.reconnectAttempts = attempts.
ReconnectDelay(attempts, jitter) ==
  Min(baseReconnectDelay * 2^attempts + jitter, maxReconnectDelay)

\* scheduleReconnect computes its delay, for an attempt count that passes
\* its guard.
ComputeDelay(attempts, jitter) ==
  /\ attempts < maxReconnectAttempts
  /\ last' = [op |-> "delay", attempts |-> attempts, jitter |-> jitter,
              delay |-> ReconnectDelay(attempts, jitter)]
  /\ emitted' = <<"connection.reconnecting">>
  /\ UNCHANGED <<connVars, authVars, token, storeVars, vecVars, ingestVars, schedVars, ftsVars>>

NextDelay ==
  \E attempts \in 0..(maxReconnectAttempts - 1), jitter \in Jitters :
    ComputeDelay(attempts, jitter)

\* The backoff delay over every attempt count and jitter.
SpecDelay == Init /\ [][NextDelay]_vars

\* ------------------------------------------- credentials across restarts

\* The JSON texts of the credentials as they change: each starts with '{'
\* (byte 1).
CredsVersions == {CredsData, <<1, 1>>}

\* How a run of saveCreds() ends: both files written; the encryption step
\* throwing (caught and logged) after creds.json was written; the process
\* stopping after creds.json was written and before creds.enc is.
SaveOutcomes == {"saved", "encryptFailed", "stopped"}

\* startsWith('{') of a credentials text.
startsWithBrace(data) == Len(data) > 0 /\ data[1] = 1

\* The wrapped saveCreds() on a 'creds.update' signal carrying the
\* credentials data: originalSaveCreds() writes creds.json; creds.enc is
\* written from it unless the encryption step fails or the process stops.
SaveCreds(data, outcome) ==
  /\ last.op \in {"startup", "saveCreds"}
  /\ credsJson' = Some(data)
  /\ IF outcome = "saved" /\ startsWithBrace(data)
     THEN \E iv \in Ivs : credsEnc' = Some(encrypt(encryptionKey, iv, data))
     ELSE credsEnc' = credsEnc
  /\ last' = [op |-> IF outcome = "stopped" THEN "stopped" ELSE "saveCreds",
              data |-> data, outcome |-> outcome]
  /\ emitted' = <<>>
  /\ UNCHANGED <<connVars, encryptionKey, orphaned>>
  /\ UNCHANGED <<token, storeVars, vecVars, ingestVars, schedVars, ftsVars>>

\* useEncryptedAuthState() of a started process up to the load of the auth
\* state: the startup decrypt, then useMultiFileAuthState reading creds.json.
StartupLoad ==
  LET d == StartupDecrypt
  IN  /\ last.op \in {"init", "restart", "startupFailed"}
      /\ credsEnc' = d.enc
      /\ credsJson' = d.json
      /\ orphaned' = d.orphaned
      /\ last' = [op |-> IF d.failed THEN "startupFailed" ELSE "startup",
                  before |-> credsJson,
                  loaded |-> IF d.failed THEN Null ELSE d.json]
      /\ emitted' = <<>>
      /\ UNCHANGED <<connVars, encryptionKey>>
      /\ UNCHANGED <<token, storeVars, vecVars, ingestVars, schedVars, ftsVars>>

NextCreds ==
  \/ \E data \in CredsVersions, outcome \in SaveOutcomes :
       SaveCreds(data, outcome)
  \/ StartupLoad
  \/ \E key \in Keys : Restart(key)

SpecCreds == Init /\ [][NextCreds]_vars

\* ------------------------------------------ 'message.new' step by step

\* The statements of the 'message.new' listener in program order.
MessageNewStepsChatFirst == <<"chats.upsert", "messages.upsert", "embed">>

MessageNewSteps == <<"messages.upsert", "chats.upsert", "embed">>

\* A listener may be entered while another one has not finished.
ListenerMayInterleave == Len(handling) < MaxListeners

\* No listener is on the stack. Every listener is a synchronous function, or
\* an async one without an await before its last statement: emit() returns
\* only when it has finished, and only then is the next event emitted.
Idle == handling = Null

\* if (msg.content): null and the empty string are falsy.
Truthy(content) == content # Null /\ content[1] # ""

\* whatsapp.emit('message.new', msg) entering the listener.
EmitMessageNew(id, chatJid, content, ts) ==
  /\ Idle
  /\ handling' = Append(handling,
                       [kind |-> "message.new", steps |-> MessageNewSteps,
                        msg |-> [id |-> id, chatJid |-> chatJid,
                                 content |-> content, ts |-> ts]])
  /\ last' = [op |-> "emit", id |-> id, chatJid |-> chatJid]
  /\ emitted' = <<>>
  /\ UNCHANGED <<storeVars, vecVars, embedPending, connVars, authVars, token,
                 schedVars, ftsVars>>

\* The next statement of the running listener. A write may raise an error of
\* the database (fails) and the insert of a message may meet the foreign key:
\* the async listener then ends with its promise rejected and the statements
\* after it do not run. The embedding is requested, not awaited.
ListenerStep(fails) ==
  /\ ~Idle
  /\ handling[1].kind = "message.new"
  /\ LET h == handling[1]
         step == Head(h.steps)
         msg == h.msg
         m == [chatJid |-> msg.chatJid, senderJid |-> Some(msg.chatJid),
               content |-> msg.content, timestamp |-> toISOString(msg.ts),
               isStarred |-> Null, isDeleted |-> Null, mediaDownloaded |-> Null,
               mediaLocalPath |-> Null, reactions |-> Null]
         c == [NoChatFields EXCEPT
                 !.lastMessageTime = Some(toISOString(msg.ts)),
                 !.isGroup = Some(isGroupJid(msg.chatJid))]
         throws == CASE step = "messages.upsert" ->
                          fails \/ ~MessageForeignKeyOk(msg.id, msg.chatJid)
                     [] step = "chats.upsert" -> fails
                     [] OTHER -> FALSE
     IN  /\ fails => step # "embed"
         /\ messages' = IF step = "messages.upsert" /\ ~throws
                         THEN MessageUpsert(messages, msg.id, m)
                         ELSE messages
         /\ chats' = IF step = "chats.upsert" /\ ~throws
                      THEN ChatUpsert(chats, msg.chatJid, c)
                      ELSE chats
         /\ embedPending' = IF step = "embed" /\ Truthy(msg.content) /\ initialized
                             THEN embedPending \cup {msg.id}
                             ELSE embedPending
         /\ handling' = IF throws \/ Len(h.steps) = 1
                         THEN Tail(handling)
                         ELSE <<[h EXCEPT !.steps = Tail(@)]>> \o Tail(handling)
         /\ last' = [op |-> "listenerStep", step |-> step, id |-> msg.id,
                     chatJid |-> msg.chatJid,
                     result |-> IF throws THEN "Error" ELSE "ok"]
  /\ FtsFollows
  /\ emitted' = <<>>
  /\ UNCHANGED <<contacts, vecVars, connVars, authVars, token, schedVars>>

\* The process stops where it is and is started again over the database
\* file: the running listener and the unsettled promises are gone, the new
\* VectorStore is not initialized, every committed write is kept.
ProcessStops ==
  /\ handling' = Null
  /\ embedPending' = {}
  /\ initialized' = FALSE
  /\ last' = [op |-> "stopped",
              pending |-> IF Idle THEN "none" ELSE Head(handling[1].steps),
              id |-> IF Idle \/ handling[1].kind # "message.new" THEN 0
                     ELSE handling[1].msg.id]
  /\ emitted' = <<>>
  /\ UNCHANGED <<storeVars, embeddings, connVars, authVars, token, schedVars, ftsVars>>

NextOrder ==
  \/ \E jid \in Jids : Idle /\ ChatUpdate(jid, Null, Null)
  \/ \E id \in MsgIds, jid \in Jids, day \in Days :
       EmitMessageNew(id, jid, Some("hi"), [day |-> day, tod |-> 0])
  \/ \E fails \in BOOLEAN : ListenerStep(fails)
  \/ ProcessStops

\* The row store under the 'message.new' listener taken statement by
\* statement, with failing writes and stops of the process.
SpecOrder == Init /\ [][NextOrder]_vars

\* ------------------------------------------------- chat flags and sync

\* ChatStore.setArchived(jid, archived): an UPDATE of the row if there is one.
SetArchived(jid, archived) ==
  /\ chats' = IF jid \in DOMAIN chats
               THEN [chats EXCEPT ![jid].isArchived = archived]
               ELSE chats
  /\ last' = [op |-> "setArchived", jid |-> jid]
  /\ emitted' = <<>>
  /\ UNCHANGED <<messages, contacts, vecVars, ingestVars, connVars, authVars,
                 token, schedVars, ftsVars>>

\* ChatStore.setPinned(jid, pinned).
SetPinned(jid, pinned) ==
  /\ chats' = IF jid \in DOMAIN chats
               THEN [chats EXCEPT ![jid].isPinned = pinned]
               ELSE chats
  /\ last' = [op |-> "setPinned", jid |-> jid]
  /\ emitted' = <<>>
  /\ UNCHANGED <<messages, contacts, vecVars, ingestVars, connVars, authVars,
                 token, schedVars, ftsVars>>

\* ChatStore.setMuted(jid, muted, muteUntil): the flag and the expiry
\* (muteUntil ?? null) are both written.
SetMuted(jid, muted, muteUntil) ==
  /\ chats' = IF jid \in DOMAIN chats
               THEN [chats EXCEPT ![jid].isMuted = muted,
                                  ![jid].muteUntil = muteUntil]
               ELSE chats
  /\ last' = [op |-> "setMuted", jid |-> jid]
  /\ emitted' = <<>>
  /\ UNCHANGED <<messages, contacts, vecVars, ingestVars, connVars, authVars,
                 token, schedVars, ftsVars>>

NextFlags ==
  \/ \E jid \in Jids, name \in {Null, Some("n")}, unread \in {Null, Some(2)} :
       ChatUpdate(jid, name, unread)
  \/ \E id \in MsgIds, jid \in Jids : MessageNew(id, jid, Some("hi"), now)
  \/ \E jid \in Jids, archived \in BOOLEAN : SetArchived(jid, archived)
  \/ \E jid \in Jids, pinned \in BOOLEAN : SetPinned(jid, pinned)
  \/ \E jid \in Jids, muted \in BOOLEAN, until \in {Null, Some("2030-01-01")} :
       SetMuted(jid, muted, until)

\* The chats table under the sync listeners and the local flag setters.
SpecFlags == Init /\ [][NextFlags]_vars

\* ------------------------------------- 'message.reaction' step by step

\* The statements of the 'message.reaction' listener that touch the store.
ReactionSteps == <<"getById", "updateReactions">>

\* whatsapp.emit('message.reaction', reaction) entering the listener.
EmitReaction(id, emoji, senderJid) ==
  /\ Idle
  /\ handling' = Append(handling,
                   [kind |-> "message.reaction", steps |-> ReactionSteps,
                    reaction |-> [id |-> id, emoji |-> emoji,
                                  senderJid |-> senderJid],
                    message |-> Null])
  /\ last' = [op |-> "emit", id |-> id, chatJid |-> "none"]
  /\ emitted' = <<>>
  /\ UNCHANGED <<storeVars, vecVars, embedPending, connVars, authVars, token,
                 schedVars, ftsVars>>

\* The next statement of the i-th listener entered, a 'message.reaction'
\* one: getById reads the row (an unknown message ends the listener), then
\* the reactions read are parsed, merged and written back.
ReactionStep(i) ==
  /\ i \in 1..Len(handling)
  /\ handling[i].kind = "message.reaction"
  /\ LET h == handling[i]
         step == Head(h.steps)
         rx == h.reaction
         found == rx.id \in DOMAIN messages
         reactions == IF h.message # Null /\ h.message[1] # Null
                      THEN JSONparse(h.message[1][1]) ELSE EmptyObject
         throws == /\ step = "updateReactions"
                   /\ GetProperty(reactions, rx.emoji).kind = "inherited"
         ends == throws \/ Len(h.steps) = 1 \/ (step = "getById" /\ ~found)
         others == [k \in 1..(Len(handling) - 1) |->
                      IF k < i THEN handling[k] ELSE handling[k + 1]]
     IN  /\ messages' = IF step = "updateReactions" /\ ~throws /\ found
                         THEN updateReactions(messages, rx.id,
                                MergeReaction(reactions, rx.emoji, rx.senderJid))
                         ELSE messages
         /\ handling' = IF ends THEN others
                         ELSE [handling EXCEPT ![i] =
                                 [h EXCEPT !.steps = Tail(@),
                                           !.message = Some(messages[rx.id].reactions)]]
         /\ last' = [op |-> "reactionStep", step |-> step, id |-> rx.id,
                     emoji |-> rx.emoji, senderJid |-> rx.senderJid,
                     found |-> found,
                     result |-> IF throws THEN "TypeError" ELSE "ok"]
  /\ FtsFollows
  /\ emitted' = <<>>
  /\ UNCHANGED <<chats, contacts, vecVars, embedPending, connVars, authVars,
                 token, schedVars>>

NextSerial ==
  \/ \E jid \in {"c1@s.whatsapp.net"} : Idle /\ ChatUpdate(jid, Null, Null)
  \/ \E id \in MsgIds :
       EmitMessageNew(id, "c1@s.whatsapp.net", Some("hi"), now)
  \/ \E fails \in BOOLEAN : ListenerStep(fails)
  \/ \E id \in ReactionTargets, emoji \in Emojis, senderJid \in Reactors :
       EmitReaction(id, emoji, senderJid)
  \/ \E i \in 1..MaxListeners : ReactionStep(i)

\* The row store under the listeners of 'message.new' and
\* 'message.reaction' taken statement by statement.
SpecSerial == Init /\ [][NextSerial]_vars

\* ------------------------------------------------------ event batches

\* The contacts of a session 'contacts.update' event: Partial<Contact>
\* values, whose id may be missing.
ContactUpdates == [id : {Null} \cup {Some(j) : j \in Jids}, name : {Null, Some("n2")}]

\* The batches an event carries.
BatchesOf(S) == UNION {[1..n -> S] : n \in 1..MaxBatch}

RECURSIVE ContactsLoop(_, _, _)
\* The for loop of the 'contacts.update' listener from the i-th contact on:
\* stmt.run cannot bind the undefined jid of a contact without id and throws,
\* which ends the loop. The table left, the contacts upserted, and whether
\* the error left the listener.
ContactsLoop(table, batch, i) ==
  IF i > Len(batch)
  THEN [table |-> table, done |-> Len(batch), threw |-> FALSE]
  ELSE IF batch[i].id = Null
  THEN [table |-> table, done |-> i - 1, threw |-> TRUE]
  ELSE ContactsLoop(
         ContactUpsert(table, batch[i].id[1],
           [phoneNumber |-> Null, name |-> batch[i].name, pushName |-> Null,
            profilePictureUrl |-> Null, isBusiness |-> Null]),
         batch, i + 1)

\* socket.ev.on('contacts.update'): the batch is mapped (jid: c.id!) and
\* emitted as one 'contacts.update' event, whose listener upserts the
\* contacts in a loop. Nothing between the listener and the session's
\* dispatch catches an error.
ContactsUpdateEvent(batch) ==
  LET r == ContactsLoop(contacts, batch, 1)
  IN  /\ contacts' = r.table
      /\ last' = [op |-> "contacts.update.event", batch |-> batch,
                  done |-> r.done, escaped |-> r.threw]
      /\ emitted' = <<"contacts.update">>
      /\ UNCHANGED <<chats, messages, vecVars, ingestVars, connVars, authVars,
                     token, schedVars, ftsVars>>

RECURSIVE MessagesLoop(_, _, _, _)
\* The for loop of socket.ev.on('messages.upsert') from the i-th message on,
\* for type 'notify': a message that does not parse is skipped; for the
\* others emit('message.new') runs the async listener, whose failing write
\* rejects the promise it returns and does not reach the loop. The tables
\* left, the messages whose listener was entered and those it rejected.
MessagesLoop(st, msgs, i, type) ==
  IF i > Len(msgs) THEN st
  ELSE LET msg == msgs[i]
           parsed == parseMessage(msg)
           emits == type = "notify" /\ parsed # Null
           m == [chatJid |-> msg.remoteJid, senderJid |-> Some(msg.remoteJid),
                 content |-> msg.message, timestamp |-> toISOString(now),
                 isStarred |-> Null, isDeleted |-> Null,
                 mediaDownloaded |-> Null, mediaLocalPath |-> Null,
                 reactions |-> Null]
           c == [NoChatFields EXCEPT
                   !.lastMessageTime = Some(toISOString(now)),
                   !.isGroup = Some(isGroupJid(msg.remoteJid))]
           fkOk == msg.id \in DOMAIN st.messages \/ msg.remoteJid \in DOMAIN st.chats
       IN  MessagesLoop(
             [messages |-> IF emits /\ fkOk
                           THEN MessageUpsert(st.messages, msg.id, m)
                           ELSE st.messages,
              chats |-> IF emits /\ fkOk
                        THEN ChatUpsert(st.chats, msg.remoteJid, c)
                        ELSE st.chats,
              entered |-> IF emits THEN st.entered \cup {i} ELSE st.entered,
              rejected |-> IF emits /\ ~fkOk THEN st.rejected \cup {i}
                           ELSE st.rejected],
             msgs, i + 1, type)

\* socket.ev.on('messages.upsert') for a whole event.
MessagesUpsertEvent(type, msgs) ==
  LET r == MessagesLoop([messages |-> messages, chats |-> chats,
                         entered |-> {}, rejected |-> {}], msgs, 1, type)
  IN  /\ messages' = r.messages
      /\ chats' = r.chats
      /\ last' = [op |-> "messages.upsert.event", type |-> type, msgs |-> msgs,
                  entered |-> r.entered, rejected |-> r.rejected,
                  escaped |-> FALSE]
      /\ FtsFollows
      /\ emitted' = IF r.entered # {} THEN <<"message.new">> ELSE <<>>
      /\ UNCHANGED <<contacts, vecVars, ingestVars, connVars, authVars, token,
                     schedVars>>

NextBatch ==
  \/ \E jid \in {"c1@s.whatsapp.net"} : ChatUpdate(jid, Null, Null)
  \/ \E type \in UpsertTypes, msgs \in BatchesOf(WAMessages) :
       MessagesUpsertEvent(type, msgs)
  \/ \E batch \in BatchesOf(ContactUpdates) : ContactsUpdateEvent(batch)

\* The stores under whole 'messages.upsert' and 'contacts.update' events.
SpecBatch == Init /\ [][NextBatch]_vars

\* ------------------------------------------------------ full-text search

\* The contents of messages: none, one word, two words.
Contents == {Null, Some("hi"), Some("yo"), Some("hi yo")}

\* The search terms.
Queries == {"hi", "yo"}

\* A content has the term among its words.
Matches(content, q) == content # Null /\ q \in Tokens(content[1])

\* MessageStore.search(query): the rows of messages joined on rowid to the
\* entries of messages_fts that MATCH the query.
MessageSearch(q) ==
  {id \in DOMAIN messages :
     \E e \in messages_fts : e[1] = rowid[id] /\ Matches(e[2], q)}

\* MessageStore.deleteOlderThan(date): DELETE ... WHERE timestamp < date, a
\* comparison of TEXT.
DeleteOlderThan(date) ==
  /\ messages' = [i \in {j \in DOMAIN messages :
                           TextLeq(date, messages[j].timestamp)} |-> messages[i]]
  /\ last' = [op |-> "deleteOlderThan",
              changes |-> Cardinality(DOMAIN messages) - Cardinality(DOMAIN messages')]
  /\ FtsFollows
  /\ emitted' = <<>>
  /\ UNCHANGED <<chats, contacts, vecVars, ingestVars, connVars, authVars,
                 token, schedVars>>

\* MessageStore.search(query) called.
Search(q) ==
  /\ last' = [op |-> "search", q |-> q, result |-> MessageSearch(q)]
  /\ emitted' = <<>>
  /\ UNCHANGED <<storeVars, ftsVars, vecVars, ingestVars, connVars, authVars,
                 token, schedVars>>

NextFts ==
  \/ \E jid \in {"c1@s.whatsapp.net"} : ChatUpdate(jid, Null, Null)
  \/ \E id \in MsgIds, content \in Contents, day \in Days :
       MessageNew(id, "c1@s.whatsapp.net", content, [day |-> day, tod |-> 0])
  \/ \E id \in MsgIds : MarkDeleted(id)
  \/ \E day \in Days : DeleteOlderThan(toISOString([day |-> day, tod |-> 0]))
  \/ \E jid \in {"c1@s.whatsapp.net"} : ChatDelete(jid)
  \/ \E q \in Queries : Search(q)

\* The messages table and its full-text index under upserts, markDeleted,
\* deleteOlderThan, chat deletion and search.
SpecFts == Init /\ [][NextFts]_vars

\* ------------------------------------------------ embedding on ingestion

\* How the promise of embeddings.embed(content).then(...) ends: embed()
\* resolves null (service unavailable, or the request failed and was
\* caught), resolves a vector that vectors.upsert stores, rejects, or the
\* vector write throws.
EmbedOutcomes == {"unavailable", "null", "vector", "rejected", "upsertThrows"}

\* The chain without its .catch(): a rejection or a throwing write becomes an
\* unhandled rejection.
EmbedSettlesUncaught(id, outcome) ==
  /\ Idle
  /\ id \in embedPending
  /\ embedPending' = embedPending \ {id}
  /\ embeddings' = IF outcome = "vector" /\ initialized
                    THEN embeddings \cup {id} ELSE embeddings
  /\ last' = [op |-> "embed.settled", id |-> id, outcome |-> outcome,
              escaped |-> outcome \in {"rejected", "upsertThrows"}
                            \/ (outcome = "vector" /\ ~initialized)]
  /\ emitted' = <<>>
  /\ UNCHANGED <<storeVars, ftsVars, initialized, handling, connVars, authVars,
                 token, schedVars>>

\* The promise requested by the 'message.new' listener settles, in a later
\* turn of the event loop: the .then callback stores a vector with
\* vectors.upsert(msg.id, ...), and the .catch swallows a rejection and an
\* error thrown by the write (a vector store not initialized included). A
\* request that never completes is one that never settles.
EmbedSettles(id, outcome) ==
  /\ Idle
  /\ id \in embedPending
  /\ embedPending' = embedPending \ {id}
  /\ embeddings' = IF outcome = "vector" /\ initialized
                    THEN embeddings \cup {id} ELSE embeddings
  /\ last' = [op |-> "embed.settled", id |-> id, outcome |-> outcome,
              escaped |-> FALSE]
  /\ emitted' = <<>>
  /\ UNCHANGED <<storeVars, ftsVars, initialized, handling, connVars, authVars,
                 token, schedVars>>

NextEmbed ==
  \/ \E jid \in {"c1@s.whatsapp.net"} : Idle /\ ChatUpdate(jid, Null, Null)
  \/ \E loads \in BOOLEAN : Idle /\ VecInitialize(loads)
  \/ \E id \in MsgIds, content \in {Null, Some("hi")} :
       EmitMessageNew(id, "c1@s.whatsapp.net", content, now)
  \/ \E fails \in BOOLEAN : ListenerStep(fails)
  \/ \E id \in MsgIds, outcome \in EmbedOutcomes : EmbedSettles(id, outcome)
  \/ ProcessStops

\* Ingestion of 'message.new' events with the embedding of their content.
SpecEmbed == Init /\ [][NextEmbed]_vars

\* -------------------------------------------- embeddings and deletions

NextLive ==
  \/ \E jid \in {"c1@s.whatsapp.net"} : Idle /\ ChatUpdate(jid, Null, Null)
  \/ \E loads \in BOOLEAN : Idle /\ VecInitialize(loads)
  \/ \E id \in MsgIds, content \in {Null, Some("hi")} :
       EmitMessageNew(id, "c1@s.whatsapp.net", content, now)
  \/ \E fails \in BOOLEAN : ListenerStep(fails)
  \/ \E id \in MsgIds, outcome \in EmbedOutcomes : EmbedSettles(id, outcome)
  \/ \E id \in MsgIds : Idle /\ MarkDeleted(id)

\* Ingestion with embedding next to the delete_message tool's markDeleted.
SpecLive == Init /\ [][NextLive]_vars

\* ------------------------------------------------------------ properties

\* How many times signal sig is in the sequence of signals sigs.
Count(sigs, sig) == Cardinality({i \in DOMAIN sigs : sigs[i] = sig})

\* C2: a send/mutate operation invoked while the client is not connected
\* (isConnected false, or no socket) throws 'Not connected to WhatsApp' and
\* hands nothing to the socket.
C2_NotConnectedThrows ==
  last.op \in Operations =>
    /\ ~isConnected => last.result = "NotConnected"
    /\ socket = 0 => last.result = "NotConnected"
    /\ last.result = "handedToSocket" => (isConnected /\ socket # 0)

\* C2's case: sendMessage is called while a socket exists and is still
\* connecting, and throws.
C2_Witness ==
  /\ last.op = "sendMessage"
  /\ last.result = "NotConnected"
  /\ socket # 0
  /\ sock[socket] = "connecting"
  /\ isConnecting

\* C3: after disconnect() has returned and until connect() is called again,
\* no reconnect timer is pending.
C3_DisconnectNoReconnect ==
  afterDisconnect => (timersArmed = 0 /\ ~reconnectTimer)

\* C4: after a recoverable close, with no disconnect() or logout() since, the
\* client never rests with no connected state reached, no connection.failed
\* emitted, no retry timer armed, no connect() in progress and no live socket.
C4_NoSilentHang ==
  lossPending => (timersArmed > 0 \/ connectPending > 0 \/ \E s \in Slots : Live(s))

C6_CloseClassified ==
  [][last'.op = "close"
     => /\ ~isConnected' /\ ~isConnecting'
        /\ IF last'.cause = "loggedOut"
           THEN /\ timersArmed' = timersArmed
                /\ reconnectTimer' = reconnectTimer
                /\ reconnectAttempts' = 0
                /\ Count(emitted', "connection.logout") = 1
                /\ Count(emitted', "connection.reconnecting") = 0
                /\ Count(emitted', "connection.failed") = 0
           ELSE /\ Count(emitted', "connection.logout") = 0
                /\ IF reconnectAttempts < maxReconnectAttempts
                   THEN /\ timersArmed' = timersArmed + 1
                        /\ reconnectTimer'
                        /\ reconnectAttempts' = reconnectAttempts + 1
                        /\ Count(emitted', "connection.reconnecting") = 1
                   ELSE Count(emitted', "connection.failed") = 1]_vars

\* C6's case: a logout close arrives during a retry sequence (the counter was
\* above zero) and resets the counter.
C6_Witness ==
  /\ last.op = "close"
  /\ last.cause = "loggedOut"
  /\ last.attempts > 0
  /\ reconnectAttempts = 0
  /\ emitted = <<"connection.logout", "connection.update">>

\* C1: after the 'message.new' handler has run for message m of chat c,
\* whatever the store held before, getByChatJid(c) holds the row of m with m's
\* content, and chat c has a row whose last-message time is m's timestamp.
C1_IngestStores ==
  last.op = "message.new" =>
    /\ last.id \in getByChatJid(last.chatJid)
    /\ last.content # Null => messages[last.id].content = last.content
    /\ last.chatJid \in DOMAIN chats
    /\ chats[last.chatJid].lastMessageTime = Some(toISOString(last.ts))

\* C7: sendMessage is invoked at most once for every scheduled message over
\* the whole run.
C7_AtMostOnce == \A id \in DOMAIN sendCount : sendCount[id] # "again"

\* C8: once the status of a scheduled message is sent, failed or cancelled, no
\* step changes it again.
C8_StatusOnce ==
  [][\A id \in DOMAIN scheduled :
       scheduled[id].status # "pending" =>
         scheduled'[id].status = scheduled[id].status]_vars

\* C9: cancel(id) returns true exactly when the row exists and is pending at
\* the call, and then sets its status to cancelled; otherwise it returns false
\* and leaves the table as it was.
C9_CancelExact ==
  [][last'.op = "cancel" =>
       LET id == last'.id
           pending == id \in DOMAIN scheduled /\ scheduled[id].status = "pending"
       IN  /\ last'.result = pending
           /\ pending => scheduled' = [scheduled EXCEPT ![id].status = "cancelled"]
           /\ ~pending => scheduled' = scheduled]_vars

\* cancel(id) of a row that was sent has returned false.
C9_Witness ==
  /\ last.op = "cancel"
  /\ last.before = "sent"
  /\ last.result = FALSE
  /\ scheduled[last.id].status = "sent"

\* C10: a poll raises exactly one 'message.due' for every pending row whose
\* scheduled time is at or before the current time, and none for any other row.
C10_DueExactlyOnce ==
  last.op = "poll" =>
    /\ \A id \in DOMAIN scheduled :
         (scheduled[id].status = "pending" /\ InstantLeq(scheduled[id].at, now))
           <=> id \in last.due
    /\ Count(emitted, "message.due") = Cardinality(last.due)

\* C11: after creds.enc could not be decrypted, no connect() creates a session
\* from the credentials stored before: no socket is ever created with the
\* plaintext creds.json that the deleted creds.enc left behind.
C11_DecryptFailureFatal == \A s \in Slots : sockCreds[s] # "orphaned"

\* C12: decrypt(encrypt(x)) = x under the key that encrypted, whatever the
\* payload and the IV; under another key, or when the bytes of the token were
\* altered (ciphertext, IV or tag changed, or the token cut short), decrypt
\* fails with an error and returns no plaintext.
C12_RoundTrip ==
  (last.op = "decrypt" /\ token # Null) =>
    LET t == token[1]
        intact == fromBase64(t.text) = fromBase64(t.original)
    IN  /\ (encryptionKey = t.key /\ intact) =>
             (last.result.ok /\ last.result.value = t.payload)
        /\ (encryptionKey # t.key \/ ~intact) =>
             (~last.result.ok /\ last.result.value = <<>>)

\* A token of a non-empty payload, unaltered, was refused under the other key.
C12_Witness ==
  /\ last.op = "decrypt"
  /\ token # Null
  /\ token[1].text = token[1].original
  /\ Len(token[1].payload) = MaxPayload
  /\ encryptionKey # token[1].key
  /\ ~last.result.ok

\* C12 as stated: decrypt fails for every token whose text differs from the
\* text encrypt() returned.
C12_AnyAlterationFails ==
  (last.op = "decrypt" /\ token # Null /\ token[1].text # token[1].original) =>
    ~last.result.ok

\* C13: whenever no credential load is in progress, no plaintext credential
\* file is on disk.
C13_EncryptedAtRest == connectPending = 0 => credsJson = Null

\* C14: when logout() has completed, no credential file is left and the client
\* is neither connected nor connecting.
C14_LogoutErases ==
  (last.op = "logout" /\ last.outcome = "ok") =>
    /\ credsEnc = Null
    /\ credsJson = Null
    /\ ~isConnected
    /\ ~isConnecting

\* C15: in every state of the messages table, an upsert of any payload for
\* any id merges into the one row of that id (no other row appears or
\* changes), and the same upsert once more leaves every field of every row as
\* the first left it.
C15_UpsertIdempotent ==
  \A id \in MsgIds, jid \in Jids, payload \in MessagePayloads :
    MessageForeignKeyOk(id, jid) =>
      LET m == MessageOf(jid, payload)
          once == MessageUpsert(messages, id, m)
          twice == MessageUpsert(once, id, m)
      IN  /\ DOMAIN once = DOMAIN messages \cup {id}
          /\ \A other \in DOMAIN messages \ {id} : once[other] = messages[other]
          /\ twice = once

\* An upsert with every field given has merged into an existing row.
C15_Witness ==
  /\ last.op = "upsert"
  /\ last.result = "ok"
  /\ last.conflict
  /\ messages[last.id].content # Null
  /\ messages[last.id].reactions # Null
  /\ messages[last.id].mediaLocalPath # Null
  /\ messages[last.id].isStarred

\* C16: after setStar(id, ...) or markDeleted(id) on a stored message,
\* re-ingesting 'message.new' for id leaves its starred flag and its deleted
\* flag as they were, and the content of a deleted message null.
C16_ReplayKeepsLocalState ==
  [][(/\ last.op \in {"setStar", "markDeleted"}
      /\ last'.op = "message.new"
      /\ last'.id = last.id
      /\ last'.id \in DOMAIN messages)
     => LET old == messages[last'.id]
            new == messages'[last'.id]
        IN  /\ new.isStarred = old.isStarred
            /\ new.isDeleted = old.isDeleted
            /\ old.isDeleted => new.content = Null]_vars

\* C17: no run of the 'message.new' handler, and no run of the 'chat.update'
\* handler for an event without an unread count, lowers the unread counter of
\* any chat.
C17_UnreadOnlyResetByMarkRead ==
  [][(\/ last'.op = "message.new"
      \/ (last'.op = "chat.update" /\ ~last'.unreadGiven))
     => \A jid \in DOMAIN chats :
          chats'[jid].unreadCount >= chats[jid].unreadCount]_vars

\* C18: an upsert of a stored contact leaves every field its input does not
\* provide (phone number, name, push name, profile picture, business flag) as
\* it was.
C18_ContactMergeKeepsKnown ==
  [][(last'.op \in {"contact.upsert", "contacts.update"} /\ last'.existed)
     => \A f \in DOMAIN contacts[last'.jid] \ last'.given :
          contacts'[last'.jid][f] = contacts[last'.jid][f]]_vars

\* C19: a reaction event (emoji e, reactor A) for a stored message leaves A
\* exactly once under e, however often it is applied, and leaves the reactor
\* list of every other emoji unchanged.
C19_ReactionMerge ==
  [][(last'.op = "message.reaction" /\ last'.found /\ last'.emoji \in Emojis)
     => /\ Count(ReactorsOf(messages', last'.id, last'.emoji), last'.senderJid) = 1
        /\ \A e \in Emojis \ {last'.emoji} :
             ReactorsOf(messages', last'.id, e) = ReactorsOf(messages, last'.id, e)]_vars

\* C19 happens: the same reaction arrived again for a message that carries
\* two emoji, and its reactor is still listed once.
C19_Witness ==
  /\ last.op = "message.reaction" /\ last.found /\ last.already
  /\ last.emoji \in Emojis
  /\ Count(ReactorsOf(messages, last.id, last.emoji), last.senderJid) = 1
  /\ \A e \in Emojis : ReactorsOf(messages, last.id, e) # <<>>

\* C20: a message with a body that the session delivers through
\* messages.upsert, whatever the upsert type, is emitted as 'message.new',
\* and is stored when its chat is known.
C20_EveryUpsertIngested ==
  (last.op = "messages.upsert" /\ last.parsed)
    => /\ emitted = <<"message.new">>
       /\ last.chatKnown => last.id \in getByChatJid(last.chatJid)

\* C21: every message row and every scheduled-message row references an
\* existing chat row, and after ChatStore.delete(jid) no row of either table
\* references jid.
C21_ReferentialIntegrity ==
  /\ \A i \in DOMAIN messages : messages[i].chatJid \in DOMAIN chats
  /\ \A i \in DOMAIN scheduled : scheduled[i].chatJid \in DOMAIN chats
  /\ last.op = "chat.delete" =>
       /\ \A i \in DOMAIN messages : messages[i].chatJid # last.jid
       /\ \A i \in DOMAIN scheduled : scheduled[i].chatJid # last.jid

\* C21 happens: a chat that had a message and a scheduled message was
\* deleted, while a row of another chat stays.
C21_Witness ==
  /\ last.op = "chat.delete" /\ last.hadMessages /\ last.hadScheduled
  /\ last.jid \notin DOMAIN chats
  /\ DOMAIN chats # {}

\* C22: while the vector index is not initialized, every other VectorStore
\* method returns without throwing, with an empty result, and changes
\* nothing.
C22_UninitializedNeverThrows ==
  (last.op \in VecMethods /\ ~last.was)
    => /\ last.result = "ok"
       /\ embeddings = {}
       /\ last.op \in {"vec.search", "vec.getUnembeddedMessageIds"}
            => last.value = {}

\* C23: with confirmation required, and every tool call lacking
\* confirm: true, no tool call is handled as a send and the scheduler never
\* invokes sendMessage for a scheduled message.
C23_NoSendWithoutConfirm ==
  /\ (last.op = "tool" /\ last.name \in CONFIRMATION_REQUIRED_OPERATIONS)
       => last.result = "requires explicit confirmation"
  /\ \A id \in DOMAIN sendCount : sendCount[id] = "never"

\* C24: whatever limit is requested (absent, zero, negative, above the
\* maximum), a get_messages, search_messages or list_chats query returns at
\* most the configured maximum number of rows.
C24_OutputLimited ==
  last.op \in QueryTools => last.count <= last.max

\* C25: for attempts 0 .. max-1 the delay is min(base * 2^attempt + jitter,
\* max_delay) with base 1 s, max_delay 60 s and 0 <= jitter < 1 s; it never
\* exceeds max_delay, and without jitter it is non-decreasing in the attempt.
C25_BackoffBounds ==
  /\ last.op = "delay" =>
       /\ last.jitter >= 0 /\ last.jitter < 1000
       /\ last.delay <= 60000
       /\ last.delay = (IF 1000 * 2^last.attempts + last.jitter < 60000
                        THEN 1000 * 2^last.attempts + last.jitter ELSE 60000)
  /\ \A a, b \in 0..(maxReconnectAttempts - 1) :
       a <= b => ReconnectDelay(a, 0) <= ReconnectDelay(b, 0)

\* C25 happens: a delay was cut down to the maximum, on an attempt with
\* jitter.
C25_Witness ==
  /\ last.op = "delay" /\ last.jitter > 0
  /\ last.delay = maxReconnectDelay
  /\ ReconnectDelayUncapped(last.attempts, last.jitter) > maxReconnectDelay

\* C26: when an 'open' connection update has made the client connected, and
\* for as long as it is connected, the reconnect attempt counter is zero, so
\* that the close that follows schedules the first attempt.
C26_OpenResetsAttempts ==
  /\ last.op = "open" => reconnectAttempts = 0
  /\ isConnected => reconnectAttempts = 0
  /\ (last.op = "close" /\ emitted = <<"connection.reconnecting", "connection.update">>
       /\ last.attempts = 0) => reconnectAttempts = 1

\* C26 happens: the connection opened after reconnect attempts had been made.
C26_Witness ==
  /\ last.op = "open" /\ last.retried
  /\ isConnected /\ reconnectAttempts = 0

\* C27: at most one reconnect timer is armed at any time, whatever sequence
\* of connection updates and calls the client has seen.
C27_OneReconnectTimer == timersArmed <= 1

\* C28: once logout() has completed, no reconnect timer is left armed, and
\* the step that follows is not a timer callback that starts a connect().
C28_LogoutCancelsTimer ==
  [][(last.op = "logout" /\ last.outcome = "ok")
     => /\ timersArmed = 0
        /\ ~(last'.op = "timer" /\ last'.started)]_vars

\* C29: at most one live protocol socket exists at any time, and a connect()
\* creates its socket only while no socket is live and the client is not
\* connected.
C29_SingleActiveConnection ==
  [][/\ Cardinality({s \in Slots : Live(s)}') <= 1
     /\ (last'.op = "connectResume" /\ last'.outcome = "ok")
          => (~isConnected /\ \A s \in Slots : ~Live(s))]_vars

\* C30: cancel(id) returns true only for a message that was never handed to
\* the connection's send operation and has no delivery under way, and a
\* message whose cancel returned true does not end in status sent.
C30_CancelledNeverSent ==
  [][/\ (last'.op = "cancel" /\ last'.result)
          => (sendCount[last'.id] = "never" /\ inflight[last'.id] = 0)
     /\ \A id \in DOMAIN scheduled :
          scheduled[id].status = "cancelled" => scheduled'[id].status # "sent"]_vars

\* C31: after a saveCreds() that ran to its end the encrypted file decrypts
\* to the plaintext credentials of that signal, and a startup that finds
\* stored plaintext credentials loads exactly those: it never replaces them
\* by the content of an older encrypted copy.
C31_StartupLoadsNewest ==
  /\ (last.op = "saveCreds" /\ last.outcome = "saved")
       => /\ credsEnc # Null
          /\ decrypt(encryptionKey, credsEnc[1]).ok
          /\ Some(decrypt(encryptionKey, credsEnc[1]).value) = credsJson
  /\ (last.op = "startup" /\ last.before # Null)
       => last.loaded = last.before

\* C32: the chat write of a 'message.new' listener happens only when the
\* row of its message is stored, nothing else sets a chat's last-message
\* time, and no step (a failing write and a stop of the process included)
\* removes a message row: a chat's last-message time set by ingesting m has
\* m's row present.
C32_MessageBeforeChat ==
  [][/\ DOMAIN messages \subseteq DOMAIN messages'
     /\ (last'.op = "listenerStep" /\ last'.step = "chats.upsert"
           /\ last'.result = "ok")
          => last'.id \in DOMAIN messages'
     /\ \A jid \in DOMAIN chats' :
          LET before == IF jid \in DOMAIN chats
                        THEN chats[jid].lastMessageTime ELSE Null
          IN  chats'[jid].lastMessageTime # before
                => /\ last'.op = "listenerStep"
                   /\ last'.step = "chats.upsert"
                   /\ last'.chatJid = jid
                   /\ last'.id \in DOMAIN messages']_vars

\* The process stopped between the two writes: the message row is stored and
\* its chat's last-message time is still unset.
C32_Witness ==
  /\ last.op = "stopped"
  /\ last.pending = "chats.upsert"
  /\ last.id \in DOMAIN messages
  /\ chats[messages[last.id].chatJid].lastMessageTime = Null

\* C33: on a stored chat the 'message.new' and 'chat.update' listeners leave
\* the archive, pin and mute flags and the mute expiry as they were.
C33_SyncKeepsChatFlags ==
  [][last'.op \in {"message.new", "chat.update"}
     => \A jid \in DOMAIN chats :
          /\ chats'[jid].isArchived = chats[jid].isArchived
          /\ chats'[jid].isPinned = chats[jid].isPinned
          /\ chats'[jid].isMuted = chats[jid].isMuted
          /\ chats'[jid].muteUntil = chats[jid].muteUntil]_vars

\* C34: a 'message.reaction' event whose target message is not stored ends
\* without an error and leaves the messages table (no row added, no row
\* changed) and the other tables as they were.
C34_ReactionBeforeMessage ==
  [][(last'.op = "message.reaction" /\ ~last'.found)
     => /\ last'.result = "ok"
        /\ messages' = messages
        /\ chats' = chats
        /\ contacts' = contacts]_vars

\* A reaction to an unknown message was handled while another message, with
\* reactions of its own, is stored.
C34_Witness ==
  /\ last.op = "message.reaction"
  /\ ~last.found
  /\ last.result = "ok"
  /\ \E id \in DOMAIN messages : messages[id].reactions # Null

\* C35: listeners run one at a time: at most one is entered and unfinished,
\* and while it is, every step is a step of that listener; a reactor stored
\* for an emoji of a message stays stored, and a reaction written for a
\* stored message stores its reactor.
C35_OneEventAtATime ==
  [][/\ Len(handling') <= 1
     /\ (~Idle /\ handling' # Null)
          => /\ handling'[1].kind = handling[1].kind
             /\ last'.op \in {"listenerStep", "reactionStep"}
     /\ \A id \in DOMAIN messages, emoji \in Emojis, r \in Reactors :
          includes(ReactorsOf(messages, id, emoji), r)
            => /\ id \in DOMAIN messages'
               /\ includes(ReactorsOf(messages', id, emoji), r)
     /\ (/\ last'.op = "reactionStep"
         /\ last'.step = "updateReactions"
         /\ last'.emoji \in Emojis)
          => includes(ReactorsOf(messages', last'.id, last'.emoji),
                      last'.senderJid)]_vars

\* Two reaction events of different reactors for the same emoji of the same
\* message have been handled: both reactors are stored.
C35_Witness ==
  /\ last.op = "reactionStep"
  /\ last.step = "updateReactions"
  /\ last.emoji \in Emojis
  /\ Len(ReactorsOf(messages, last.id, last.emoji)) = 2

\* C36: no error of handling one element of an event leaves the listener
\* towards the session's dispatch, and the elements after a failing one are
\* still handled: every message of a 'notify' batch that parses has its
\* listener entered, and every contact of a contacts batch that has an id is
\* stored.
C36_FailureIsolation ==
  /\ last.op = "messages.upsert.event"
       => /\ ~last.escaped
          /\ last.type = "notify"
               => last.entered = {i \in 1..Len(last.msgs) :
                                    parseMessage(last.msgs[i]) # Null}
  /\ last.op = "contacts.update.event"
       => /\ ~last.escaped
          /\ \A i \in 1..Len(last.batch) :
               last.batch[i].id # Null
                 => last.batch[i].id[1] \in DOMAIN contacts

C38_EmbeddingNeverBlocks ==
  [][/\ (last'.op = "listenerStep" /\ last'.step = "embed")
          => /\ last'.result = "ok"
             /\ last'.id \in DOMAIN messages
             /\ last'.chatJid \in DOMAIN chats
             /\ UNCHANGED storeVars
     /\ last'.op = "embed.settled"
          => /\ ~last'.escaped
             /\ UNCHANGED storeVars
     /\ (Idle /\ embedPending # {})
          => ENABLED EmitMessageNew(1, "c1@s.whatsapp.net", Some("hi"), now)]_vars

\* A vector write threw after the message was stored; the rows are there.
C38_Witness ==
  /\ last.op = "embed.settled"
  /\ last.outcome = "upsertThrows"
  /\ last.id \in DOMAIN messages
  /\ last.id \notin embeddings

\* C39: every message id that has a stored embedding has a message row
\* whose content is non-empty and which is not marked deleted.
C39_EmbeddingOfLiveMessage ==
  \A id \in embeddings :
    /\ id \in DOMAIN messages
    /\ Truthy(messages[id].content)
    /\ ~messages[id].isDeleted

\* C40: a pending message whose scheduled time has passed leaves the pending
\* status if a poll finds the client connected later on; and a poll that
\* finds the client not connected changes no row.
C40_DueEventuallyDecided ==
  /\ \A id \in SchedIds :
       []((/\ id \in DOMAIN scheduled
           /\ scheduled[id].status = "pending"
           /\ InstantLeq(scheduled[id].at, now)
           /\ <>(last.op = "poll" /\ last.connected))
          => <>(id \in DOMAIN scheduled => scheduled[id].status # "pending"))
  /\ [][(last'.op = "poll" /\ ~last'.connected) => scheduled' = scheduled]_vars

====
